---- MODULE Spec2Model ----
(***************************************************************************)
(* Dynamic field schema and compliance engine of FlexVerify.               *)
(*                                                                         *)
(* The module holds several specifications over one set of variables:      *)
(*   SpecCap    capability resolution  (models/user.py)                    *)
(*   SpecField  one field definition, one raw value: the Type Validator    *)
(*              (services/field_service.py) and the compliance rule        *)
(*              (services/validation_service.py)                           *)
(*   SpecVP     validate_person over a registry and a person               *)
(*   SpecReg    the field definition registry and its routes               *)
(*   SpecRace   create and rename requests of several clients, each split  *)
(*              into its lookup and its commit                             *)
(*   SpecGrant  the field lists a user's roles let them see and edit       *)
(*              (services/field_service.py)                                *)
(*   SpecDep    the Dependency Evaluator (services/field_service.py)       *)
(*   SpecSnap   validate_person field by field, with /fields requests of   *)
(*              other clients in between                                   *)
(* Each specification leaves the variables of the others at their idle     *)
(* values.                                                                 *)
(***************************************************************************)
EXTENDS Integers, Sequences, FiniteSets, TLC

VARIABLES
    actor,      \* the User whose capabilities are resolved
    roles,      \* role id -> Role row (visible_fields, editable_fields)
    cap,        \* what the last get_visible_fields / get_editable_fields returned
    fdef,       \* SpecField: the field definition handed to the validator / rule
    fvalue,     \* SpecField: the raw value
    out,        \* SpecField: what the last validate_value / rule evaluation returned;
                \* SpecDep: what the last evaluate_dependencies returned
    utcnow,     \* the clock: datetime.utcnow(), in ticks
    registry,   \* field id -> FieldDefinition row
    nextId,     \* the id the next created FieldDefinition gets
    resp,       \* the response of the last /fields request
    inflight,   \* SpecRace: client -> the /fields request it has in progress
    person,     \* the Person row: field_data and compliance_status
    result      \* what the last validate_person returned

capVars == <<actor, roles, cap>>

fieldVars == <<fdef, fvalue, out>>

regVars == <<registry, nextId, resp, inflight>>

vpVars == <<person, result>>

vars ==
    <<actor, roles, cap, fdef, fvalue, out, utcnow, registry, nextId, resp, inflight, person,
      result>>

----------------------------------------------------------------------------
(* Python values as they appear in JSON columns and in field_data.  One    *)
(* record shape for every type; t = "absent" is a key that a dict does not *)
(* carry (dict.get then returns its default).  Strings are sequences of    *)
(* one-character strings.                                                  *)

PyVal(t, s, n, b, l) == [t |-> t, s |-> s, n |-> n, b |-> b, l |-> l]

Absent == PyVal("absent", <<>>, 0, FALSE, <<>>)

PyNone == PyVal("none", <<>>, 0, FALSE, <<>>)

PyStr(s) == PyVal("str", s, 0, FALSE, <<>>)

PyNum(n) == PyVal("num", <<>>, n, FALSE, <<>>)

PyBool(b) == PyVal("bool", <<>>, 0, b, <<>>)

\* a list of strings
PyList(l) == PyVal("list", <<>>, 0, FALSE, l)

\* dict.get(key): None when the key is missing
Get(v) == IF v.t = "absent" THEN PyNone ELSE v

\* dict.get(key, default)
GetOr(v, default) == IF v.t = "absent" THEN default ELSE v

\* bool(v)
Truthy(v) ==
    CASE v.t = "str" -> v.s # <<>>
      [] v.t = "num" -> v.n # 0
      [] v.t = "bool" -> v.b
      [] v.t = "list" -> v.l # <<>>
      [] OTHER -> FALSE

\* the test "value is None or value == ''"
IsEmptyValue(v) == v.t \in {"none", "absent"} \/ (v.t = "str" /\ v.s = <<>>)

\* a == b of Python for the values above: True == 1 and False == 0
PyEq(a, b) ==
    LET num(v) == IF v.t = "bool" THEN (IF v.b THEN 1 ELSE 0) ELSE v.n
    IN IF a.t \in {"num", "bool"} /\ b.t \in {"num", "bool"} THEN num(a) = num(b)
       ELSE Get(a) = Get(b)

Digits == <<"0", "1", "2", "3", "4", "5", "6", "7", "8", "9">>

UpperChars == <<"A", "B", "C", "D", "E", "F", "G", "H", "I", "J", "K", "L", "M",
                "N", "O", "P", "Q", "R", "S", "T", "U", "V", "W", "X", "Y", "Z">>

LowerChars == <<"a", "b", "c", "d", "e", "f", "g", "h", "i", "j", "k", "l", "m",
                "n", "o", "p", "q", "r", "s", "t", "u", "v", "w", "x", "y", "z">>

IsDigit(c) == \E i \in DOMAIN Digits : Digits[i] = c

DigitVal(c) == (CHOOSE i \in DOMAIN Digits : Digits[i] = c) - 1

IsLetter(c) ==
    \/ \E i \in DOMAIN UpperChars : UpperChars[i] = c
    \/ \E i \in DOMAIN LowerChars : LowerChars[i] = c

\* str.lower()
LowerChar(c) ==
    IF \E i \in DOMAIN UpperChars : UpperChars[i] = c
    THEN LowerChars[CHOOSE i \in DOMAIN UpperChars : UpperChars[i] = c]
    ELSE c

Lower(s) == [i \in DOMAIN s |-> LowerChar(s[i])]

RECURSIVE NatToStr(_)
NatToStr(n) ==
    IF n < 10 THEN <<Digits[n + 1]>>
    ELSE NatToStr(n \div 10) \o <<Digits[(n % 10) + 1]>>

IntToStr(n) == IF n < 0 THEN <<"-">> \o NatToStr(0 - n) ELSE NatToStr(n)

RECURSIVE ListRepr(_)
ListRepr(l) ==
    IF l = <<>> THEN <<>>
    ELSE <<"'">> \o Head(l) \o <<"'">>
         \o (IF Len(l) > 1 THEN <<",", " ">> ELSE <<>>) \o ListRepr(Tail(l))

\* str(value)
Str(v) ==
    CASE v.t = "str" -> v.s
      [] v.t = "num" -> IntToStr(v.n)
      [] v.t = "bool" -> IF v.b THEN <<"T", "r", "u", "e">> ELSE <<"F", "a", "l", "s", "e">>
      [] v.t = "list" -> <<"[">> \o ListRepr(v.l) \o <<"]">>
      [] OTHER -> <<"N", "o", "n", "e">>

RECURSIVE DigitsToNat(_)
DigitsToNat(s) ==
    IF s = <<>> THEN 0 ELSE DigitsToNat(SubSeq(s, 1, Len(s) - 1)) * 10 + DigitVal(s[Len(s)])

AllDigits(s) == s # <<>> /\ \A i \in DOMAIN s : IsDigit(s[i])

\* str.strip()
RECURSIVE Strip(_)
Strip(s) ==
    IF s = <<>> THEN s
    ELSE IF Head(s) = " " THEN Strip(Tail(s))
    ELSE IF s[Len(s)] = " " THEN Strip(SubSeq(s, 1, Len(s) - 1))
    ELSE s

\* float(value): whole numbers only, with an optional sign; a string of any
\* other shape, None and a list do not convert (ValueError / TypeError)
Float(v) ==
    CASE v.t = "num" -> [ok |-> TRUE, n |-> v.n]
      [] v.t = "bool" -> [ok |-> TRUE, n |-> IF v.b THEN 1 ELSE 0]
      [] v.t = "str" ->
           LET str == Strip(v.s)
               body == IF str # <<>> /\ str[1] \in {"-", "+"} THEN Tail(str) ELSE str
               neg == str # <<>> /\ str[1] = "-"
           IN IF AllDigits(body)
              THEN [ok |-> TRUE, n |-> IF neg THEN 0 - DigitsToNat(body) ELSE DigitsToNat(body)]
              ELSE [ok |-> FALSE, n |-> 0]
      [] OTHER -> [ok |-> FALSE, n |-> 0]

----------------------------------------------------------------------------
(* Time.  A datetime is a number of ticks since the epoch, TicksPerDay     *)
(* ticks to the day.  An ISO string of the model is the day number in two  *)
(* digits ("07"), optionally followed by "T" and the tick of the day        *)
(* ("07T1"), optionally followed by a UTC offset ("07T1+00:00").           *)

TicksPerDay == 2

Utc == <<"+", "0", "0", ":", "0", "0">>

\* str.replace("Z", "+00:00")
RECURSIVE ReplaceZ(_)
ReplaceZ(s) ==
    IF \A i \in DOMAIN s : s[i] # "Z" THEN s
    ELSE LET z == CHOOSE i \in DOMAIN s : s[i] = "Z" /\ \A j \in 1..(i - 1) : s[j] # "Z"
         IN SubSeq(s, 1, z - 1) \o Utc \o ReplaceZ(SubSeq(s, z + 1, Len(s)))

\* datetime.fromisoformat(s); ok = FALSE is the ValueError
fromisoformat(s) ==
    LET isDay(x) == Len(x) = 2 /\ IsDigit(x[1]) /\ IsDigit(x[2])
        isTime(x) == Len(x) = 2 /\ x[1] = "T" /\ IsDigit(x[2]) /\ DigitVal(x[2]) < TicksPerDay
        day(x) == DigitsToNat(SubSeq(x, 1, 2)) * TicksPerDay
    IN CASE isDay(s) -> [ok |-> TRUE, ticks |-> day(s), tz |-> FALSE]
         [] Len(s) = 4 /\ isDay(SubSeq(s, 1, 2)) /\ isTime(SubSeq(s, 3, 4)) ->
              [ok |-> TRUE, ticks |-> day(s) + DigitVal(s[4]), tz |-> FALSE]
         [] Len(s) = 10 /\ isDay(SubSeq(s, 1, 2)) /\ isTime(SubSeq(s, 3, 4))
              /\ SubSeq(s, 5, 10) = Utc ->
              [ok |-> TRUE, ticks |-> day(s) + DigitVal(s[4]), tz |-> TRUE]
         [] OTHER -> [ok |-> FALSE, ticks |-> 0, tz |-> FALSE]

\* datetime.utcnow().replace(hour=0, minute=0, second=0, microsecond=0)
Midnight(t) == (t \div TicksPerDay) * TicksPerDay

\* "abs(date_val - today).days": a date in the past counts as one ahead
DeltaDays_Abs(a, b) == (IF a >= b THEN a - b ELSE b - a) \div TicksPerDay

\* timedelta.days of (a - b): the floor of the difference in days
DeltaDays(a, b) == (a - b) \div TicksPerDay

----------------------------------------------------------------------------
(* Field definitions.  configuration is the JSONB dict with the keys the   *)
(* engine reads; compliance_rules is its sub-dict.                         *)

NoRules ==
    [t |-> "absent", check_type |-> Absent, warning_days |-> Absent,
     compare_to |-> Absent, compare_value |-> Absent, error_message |-> Absent]

EmptyRules == [NoRules EXCEPT !.t = "dict"]

EmptyConfig ==
    [max_length |-> Absent, regex |-> Absent, min |-> Absent, max |-> Absent,
     options |-> Absent, multi_select |-> Absent, allow_other |-> Absent,
     warning_days |-> Absent, critical_days |-> Absent, compliance_rules |-> NoRules]

\* bool(config.get("compliance_rules")): a dict is true when it has a key
RulesTruthy(r) ==
    /\ r.t = "dict"
    /\ \E k \in {"check_type", "warning_days", "compare_to", "compare_value", "error_message"} :
         r[k].t # "absent"

\* bool(config.get("compliance_rules")) for any stored value: a non-empty
\* dict, or (t = "str") a non-empty value that is no dict
HasRules(r) == RulesTruthy(r) \/ r.t = "str"

----------------------------------------------------------------------------
(* Type Validator: FieldService.validate_value and its _validate_* helpers *)

Ok(v) == [raised |-> FALSE, valid |-> TRUE, error |-> "", value |-> v]

Fail(msg, v) == [raised |-> FALSE, valid |-> FALSE, error |-> msg, value |-> v]

\* an exception leaves the validator
Raised == [raised |-> TRUE, valid |-> FALSE, error |-> "exception", value |-> PyNone]

\* the regular expressions an administrator stores in configuration.regex
UpperAlnumRe == <<"^", "[", "A", "-", "Z", "0", "-", "9", "]", "+", "$">>

BrokenRe == <<"(">>

IsUpper(c) == \E i \in DOMAIN UpperChars : UpperChars[i] = c

\* re.match(regex, value): "match" / "nomatch" / "error" (re.error)
ReMatch(regex, s) ==
    CASE regex = UpperAlnumRe ->
           IF s # <<>> /\ \A i \in DOMAIN s : IsUpper(s[i]) \/ IsDigit(s[i])
           THEN "match" ELSE "nomatch"
      [] regex = BrokenRe -> "error"

\* a > b of Python between a float / int and a configured bound:
\* "gt", "le", or "error" (TypeError) when the bound is no number
Compare(n, bound) ==
    CASE bound.t = "num" -> IF n > bound.n THEN "gt" ELSE IF n < bound.n THEN "lt" ELSE "eq"
      [] bound.t = "bool" ->
           LET m == IF bound.b THEN 1 ELSE 0
           IN IF n > m THEN "gt" ELSE IF n < m THEN "lt" ELSE "eq"
      [] OTHER -> "error"

DefaultMaxLength == 255

_validate_text(field, value) ==
    LET v == Str(value)
        config == field.configuration
        max_length == GetOr(config.max_length, PyNum(DefaultMaxLength))
        cmp == Compare(Len(v), max_length)
        regex == Get(config.regex)
    IN IF cmp = "error" THEN Raised
       ELSE IF cmp = "gt" THEN Fail("Text exceeds maximum length", PyStr(v))
       ELSE IF ~Truthy(regex) THEN Ok(PyStr(v))
       ELSE IF regex.t # "str" THEN Raised
       ELSE CASE ReMatch(regex.s, v) = "error" -> Raised
              [] ReMatch(regex.s, v) = "nomatch" ->
                   Fail("Text does not match required format", PyStr(v))
              [] OTHER -> Ok(PyStr(v))

_validate_textarea(field, value) == _validate_text(field, value)

\* ^[a-zA-Z0-9._%+-]+@[a-zA-Z0-9.-]+\.[a-zA-Z]{2,}$
EmailMatch(s) ==
    LET local(c) == IsLetter(c) \/ IsDigit(c) \/ c \in {".", "_", "%", "+", "-"}
        domain(c) == IsLetter(c) \/ IsDigit(c) \/ c \in {".", "-"}
    IN \E at \in DOMAIN s : \E dot \in DOMAIN s :
         /\ s[at] = "@" /\ s[dot] = "."
         /\ 1 < at /\ at + 1 < dot /\ dot + 2 <= Len(s)
         /\ \A i \in 1..(at - 1) : local(s[i])
         /\ \A i \in (at + 1)..(dot - 1) : domain(s[i])
         /\ \A i \in (dot + 1)..Len(s) : IsLetter(s[i])

_validate_email(field, value) ==
    LET v == Str(value)
    IN IF ~EmailMatch(v) THEN Fail("Invalid email format", PyStr(v)) ELSE Ok(PyStr(v))

\* "value <= min_val" and "value >= max_val": the bounds themselves refused
_validate_number_Exclusive(field, value) ==
    LET f == Float(value)
        config == field.configuration
        min_val == Get(config.min)
        max_val == Get(config.max)
    IN IF ~f.ok THEN Fail("Invalid number", value)
       ELSE IF min_val.t # "none" /\ Compare(f.n, min_val) = "error" THEN Raised
       ELSE IF min_val.t # "none" /\ Compare(f.n, min_val) # "gt"
            THEN Fail("Value must be at least min", PyNum(f.n))
       ELSE IF max_val.t # "none" /\ Compare(f.n, max_val) = "error" THEN Raised
       ELSE IF max_val.t # "none" /\ Compare(f.n, max_val) # "lt"
            THEN Fail("Value must be at most max", PyNum(f.n))
       ELSE Ok(PyNum(f.n))

_validate_number(field, value) ==
    LET f == Float(value)
        config == field.configuration
        min_val == Get(config.min)
        max_val == Get(config.max)
    IN IF ~f.ok THEN Fail("Invalid number", value)
       ELSE IF min_val.t # "none" /\ Compare(f.n, min_val) = "error" THEN Raised
       ELSE IF min_val.t # "none" /\ Compare(f.n, min_val) = "lt"
            THEN Fail("Value must be at least min", PyNum(f.n))
       ELSE IF max_val.t # "none" /\ Compare(f.n, max_val) = "error" THEN Raised
       ELSE IF max_val.t # "none" /\ Compare(f.n, max_val) = "gt"
            THEN Fail("Value must be at most max", PyNum(f.n))
       ELSE Ok(PyNum(f.n))

_validate_date(field, value) ==
    IF ~fromisoformat(ReplaceZ(Str(value))).ok
    THEN Fail("Invalid date format (use ISO format)", value)
    ELSE Ok(value)

_validate_date_expiry(field, value) == _validate_date(field, value)

TrueTokens == {<<"t", "r", "u", "e">>, <<"1">>, <<"y", "e", "s">>, <<"j", "a">>}

FalseTokens == {<<"f", "a", "l", "s", "e">>, <<"0">>, <<"n", "o">>, <<"n", "e", "i", "n">>}

_validate_checkbox(field, value) ==
    IF value.t = "bool" THEN Ok(value)
    ELSE IF Lower(Str(value)) \in TrueTokens THEN Ok(PyBool(TRUE))
    ELSE IF Lower(Str(value)) \in FalseTokens THEN Ok(PyBool(FALSE))
    ELSE Fail("Invalid boolean value", value)

\* "v not in options" for a string v: "in", "notin" or "error" (TypeError)
InOptions(s, options) ==
    CASE options.t = "list" ->
           IF \E i \in DOMAIN options.l : options.l[i] = s THEN "in" ELSE "notin"
      [] options.t = "str" ->
           IF \E i \in 1..(Len(options.s) + 1) : \E j \in (i - 1)..Len(options.s) :
                SubSeq(options.s, i, j) = s
           THEN "in" ELSE "notin"
      [] OTHER -> "error"

\* "value not in options" for a value of any type
ValueInOptions(value, options) ==
    CASE value.t = "str" -> InOptions(value.s, options)
      [] options.t = "list" -> "notin"
      [] OTHER -> "error"

RECURSIVE Text(_)
\* the characters of s as one string, for a message that quotes a value
Text(s) ==
    IF s = <<>> THEN ""
    ELSE IF Len(s) = 1 THEN s[1]
    ELSE Text(SubSeq(s, 1, Len(s) \div 2)) \o Text(SubSeq(s, (Len(s) \div 2) + 1, Len(s)))

RECURSIVE FirstBadOption(_, _)
\* the loop over a multi-select value: "in" when every element is in options,
\* or the first element v for which "v not in options" is true ("notin") or
\* raises ("error")
FirstBadOption(l, options) ==
    IF l = <<>> THEN [kind |-> "in", v |-> <<>>]
    ELSE IF InOptions(Head(l), options) # "in"
         THEN [kind |-> InOptions(Head(l), options), v |-> Head(l)]
    ELSE FirstBadOption(Tail(l), options)

\* only value[0] is looked at
_validate_dropdown_FirstOnly(field, value) ==
    LET config == field.configuration
        options == GetOr(config.options, PyList(<<>>))
        multi_select == Truthy(GetOr(config.multi_select, PyBool(FALSE)))
        allow_other == Truthy(GetOr(config.allow_other, PyBool(FALSE)))
        asList == IF value.t = "list" THEN value
                  ELSE IF value.t = "str" THEN PyList(<<value.s>>)
                  ELSE PyList(<<Str(value)>>)
        bad == IF value.t \in {"list", "str"}
               THEN FirstBadOption(IF asList.l = <<>> THEN <<>> ELSE <<Head(asList.l)>>, options)
               ELSE [kind |-> ValueInOptions(value, options), v |-> Str(value)]
    IN IF multi_select
       THEN IF allow_other THEN Ok(asList)
            ELSE CASE bad.kind = "error" -> Raised
                   [] bad.kind = "notin" -> Fail("Invalid option: " \o Text(bad.v), asList)
                   [] OTHER -> Ok(asList)
       ELSE IF allow_other THEN Ok(value)
            ELSE CASE ValueInOptions(value, options) = "error" -> Raised
                   [] ValueInOptions(value, options) = "notin" ->
                        Fail("Invalid option: " \o Text(Str(value)), value)
                   [] OTHER -> Ok(value)

_validate_dropdown(field, value) ==
    LET config == field.configuration
        options == GetOr(config.options, PyList(<<>>))
        multi_select == Truthy(GetOr(config.multi_select, PyBool(FALSE)))
        allow_other == Truthy(GetOr(config.allow_other, PyBool(FALSE)))
        \* value = [value]; the lists of the model hold strings, a one-element
        \* list of another scalar is written with the scalar's text
        asList == IF value.t = "list" THEN value
                  ELSE IF value.t = "str" THEN PyList(<<value.s>>)
                  ELSE PyList(<<Str(value)>>)
        bad == IF value.t \in {"list", "str"} THEN FirstBadOption(asList.l, options)
               ELSE [kind |-> ValueInOptions(value, options), v |-> Str(value)]
    IN IF multi_select
       THEN IF allow_other THEN Ok(asList)
            ELSE CASE bad.kind = "error" -> Raised
                   [] bad.kind = "notin" -> Fail("Invalid option: " \o Text(bad.v), asList)
                   [] OTHER -> Ok(asList)
       ELSE IF allow_other THEN Ok(value)
            ELSE CASE ValueInOptions(value, options) = "error" -> Raised
                   [] ValueInOptions(value, options) = "notin" ->
                        Fail("Invalid option: " \o Text(Str(value)), value)
                   [] OTHER -> Ok(value)

_validate_qr_code(field, value) == Ok(PyStr(Str(value)))

_validate_barcode(field, value) == Ok(PyStr(Str(value)))

\* the empty test without its 'value == ""' half
validate_value_NoneOnly(field, value) ==
    IF value.t \in {"none", "absent"}
    THEN IF field.is_required THEN Fail("Field is required", PyNone) ELSE Ok(PyNone)
    ELSE _validate_text(field, value)

validate_value(field, value) ==
    IF IsEmptyValue(value)
    THEN IF field.is_required THEN Fail("Field is required", PyNone) ELSE Ok(PyNone)
    ELSE CASE field.field_type = "text" -> _validate_text(field, value)
           [] field.field_type = "textarea" -> _validate_textarea(field, value)
           [] field.field_type = "email" -> _validate_email(field, value)
           [] field.field_type = "number" -> _validate_number(field, value)
           [] field.field_type = "date" -> _validate_date(field, value)
           [] field.field_type = "date_expiry" -> _validate_date_expiry(field, value)
           [] field.field_type = "checkbox" -> _validate_checkbox(field, value)
           [] field.field_type = "dropdown" -> _validate_dropdown(field, value)
           [] field.field_type = "qr_code" -> _validate_qr_code(field, value)
           [] field.field_type = "barcode" -> _validate_barcode(field, value)
           [] OTHER -> Ok(value)

----------------------------------------------------------------------------
(* Compliance Rule Engine: ValidationService._evaluate_compliance_rule and *)
(* its _check_* helpers.  now is datetime.utcnow() in ticks.               *)

CT_date_not_expired == <<"d", "a", "t", "e", "_", "n", "o", "t", "_", "e", "x", "p", "i", "r", "e", "d">>

CT_date_before == <<"d", "a", "t", "e", "_", "b", "e", "f", "o", "r", "e">>

CT_date_after == <<"d", "a", "t", "e", "_", "a", "f", "t", "e", "r">>

CT_checkbox_is_true == <<"c", "h", "e", "c", "k", "b", "o", "x", "_", "i", "s", "_", "t", "r", "u", "e">>

CT_checkbox_is_false == <<"c", "h", "e", "c", "k", "b", "o", "x", "_", "i", "s", "_", "f", "a", "l", "s", "e">>

CT_value_equals == <<"v", "a", "l", "u", "e", "_", "e", "q", "u", "a", "l", "s">>

CT_value_not_equals == <<"v", "a", "l", "u", "e", "_", "n", "o", "t", "_", "e", "q", "u", "a", "l", "s">>

CT_number_greater_than == <<"n", "u", "m", "b", "e", "r", "_", "g", "r", "e", "a", "t", "e", "r", "_", "t", "h", "a", "n">>

CT_number_less_than == <<"n", "u", "m", "b", "e", "r", "_", "l", "e", "s", "s", "_", "t", "h", "a", "n">>

CT_not_empty == <<"n", "o", "t", "_", "e", "m", "p", "t", "y">>

S_today == <<"t", "o", "d", "a", "y">>

S_true == <<"t", "r", "u", "e">>

S_True == <<"T", "r", "u", "e">>

S_1 == <<"1">>

RuleValid == [status |-> "valid", message |-> "", days_overdue |-> PyNone, days_until |-> PyNone]

RuleError(msg) == [RuleValid EXCEPT !.status = "error", !.message = msg]

\* an exception leaves _evaluate_compliance_rule
RuleRaised == [RuleValid EXCEPT !.status = "raised"]

\* rules.get("error_message", default)
ErrorMessage(rules, default) ==
    IF rules.error_message.t = "absent" THEN default ELSE "error_message"

DefaultWarningDays == 30

\* "days_diff < warning_days" in place of "days_diff <= warning_days"
_check_date_not_expired_Strict(field, value, rules, now) ==
    IF ~Truthy(value) THEN RuleError(ErrorMessage(rules, "is missing"))
    ELSE LET date_val == fromisoformat(ReplaceZ(Str(value)))
             today == Midnight(now)
             warning_days == GetOr(rules.warning_days, PyNum(DefaultWarningDays))
             days_diff == DeltaDays(date_val.ticks, today)
         IN IF ~date_val.ok THEN RuleError("Invalid date format")
            ELSE IF days_diff < 0
                 THEN [RuleError(ErrorMessage(rules, "has expired"))
                         EXCEPT !.days_overdue = PyNum(0 - days_diff)]
            ELSE IF Compare(days_diff, warning_days) = "lt"
                 THEN [status |-> "warning", message |-> "expires in days",
                       days_overdue |-> PyNone, days_until |-> PyNum(days_diff)]
            ELSE RuleValid

_check_date_not_expired(field, value, rules, now) ==
    IF ~Truthy(value) THEN RuleError(ErrorMessage(rules, "is missing"))
    ELSE LET date_val == fromisoformat(ReplaceZ(Str(value)))
             today == Midnight(now)
             warning_days == GetOr(rules.warning_days, PyNum(DefaultWarningDays))
             days_diff == DeltaDays(date_val.ticks, today)
         IN IF ~date_val.ok THEN RuleError("Invalid date format")
            ELSE IF days_diff < 0
                 THEN [RuleError(ErrorMessage(rules, "has expired"))
                         EXCEPT !.days_overdue = PyNum(0 - days_diff)]
            ELSE IF Compare(days_diff, warning_days) = "error" THEN RuleError("Invalid date format")
            ELSE IF Compare(days_diff, warning_days) # "gt"
                 THEN [status |-> "warning", message |-> "expires in days",
                       days_overdue |-> PyNone, days_until |-> PyNum(days_diff)]
            ELSE RuleValid

\* the comparison date of date_before / date_after: ok, ticks, or skip (no compare_value)
CompareDate(rules, now) ==
    LET compare_to == GetOr(rules.compare_to, PyStr(S_today))
        compare_value == Get(rules.compare_value)
        parsed == fromisoformat(ReplaceZ(Str(compare_value)))
    IN IF compare_to = PyStr(S_today) THEN [kind |-> "date", ticks |-> Midnight(now)]
       ELSE IF ~Truthy(compare_value) THEN [kind |-> "skip", ticks |-> 0]
       ELSE IF ~parsed.ok THEN [kind |-> "error", ticks |-> 0]
       ELSE [kind |-> "date", ticks |-> parsed.ticks]

\* the except branch answers 'valid' in place of 'error'
_check_date_before_FailOpen(field, value, rules, now) ==
    IF ~Truthy(value) THEN RuleValid
    ELSE LET date_val == fromisoformat(ReplaceZ(Str(value)))
             cd == CompareDate(rules, now)
         IN IF ~date_val.ok THEN RuleValid
            ELSE IF cd.kind = "skip" THEN RuleValid
            ELSE IF cd.kind = "error" THEN RuleValid
            ELSE IF date_val.ticks >= cd.ticks
                 THEN RuleError(ErrorMessage(rules, "must be before the specified date"))
            ELSE RuleValid

_check_date_before(field, value, rules, now) ==
    IF ~Truthy(value) THEN RuleValid
    ELSE LET date_val == fromisoformat(ReplaceZ(Str(value)))
             cd == CompareDate(rules, now)
         IN IF ~date_val.ok THEN RuleError("Invalid date format")
            ELSE IF cd.kind = "skip" THEN RuleValid
            ELSE IF cd.kind = "error" THEN RuleError("Invalid date format")
            ELSE IF date_val.ticks >= cd.ticks
                 THEN RuleError(ErrorMessage(rules, "must be before the specified date"))
            ELSE RuleValid

\* "date_val < compare_date": the comparison date itself passes
_check_date_after_AllowsEqual(field, value, rules, now) ==
    IF ~Truthy(value) THEN RuleValid
    ELSE LET date_val == fromisoformat(ReplaceZ(Str(value)))
             cd == CompareDate(rules, now)
         IN IF ~date_val.ok THEN RuleError("Invalid date format")
            ELSE IF cd.kind = "skip" THEN RuleValid
            ELSE IF cd.kind = "error" THEN RuleError("Invalid date format")
            ELSE IF date_val.ticks < cd.ticks
                 THEN RuleError(ErrorMessage(rules, "must be after the specified date"))
            ELSE RuleValid

_check_date_after(field, value, rules, now) ==
    IF ~Truthy(value) THEN RuleValid
    ELSE LET date_val == fromisoformat(ReplaceZ(Str(value)))
             cd == CompareDate(rules, now)
         IN IF ~date_val.ok THEN RuleError("Invalid date format")
            ELSE IF cd.kind = "skip" THEN RuleValid
            ELSE IF cd.kind = "error" THEN RuleError("Invalid date format")
            ELSE IF date_val.ticks <= cd.ticks
                 THEN RuleError(ErrorMessage(rules, "must be after the specified date"))
            ELSE RuleValid

\* value in [True, "true", "True", 1, "1"]
is_checked(value) ==
    \/ PyEq(value, PyBool(TRUE))
    \/ value \in {PyStr(S_true), PyStr(S_True), PyStr(S_1)}

_check_checkbox_true(field, value, rules) ==
    IF ~is_checked(value) THEN RuleError(ErrorMessage(rules, "must be checked")) ELSE RuleValid

_check_checkbox_false(field, value, rules) ==
    IF is_checked(value) THEN RuleError(ErrorMessage(rules, "must be unchecked")) ELSE RuleValid

_check_value_equals(field, value, rules) ==
    LET compare_value == Get(rules.compare_value)
    IN IF compare_value.t = "none" THEN RuleValid
       ELSE IF Str(value) # Str(compare_value)
            THEN RuleError(ErrorMessage(rules, "must be compare_value"))
       ELSE RuleValid

_check_value_not_equals(field, value, rules) ==
    LET compare_value == Get(rules.compare_value)
    IN IF compare_value.t = "none" THEN RuleValid
       ELSE IF Str(value) = Str(compare_value)
            THEN RuleError(ErrorMessage(rules, "must not be compare_value"))
       ELSE RuleValid

_check_number_greater_than(field, value, rules) ==
    LET compare_value == Get(rules.compare_value)
        num_value == Float(value)
        num_compare == Float(compare_value)
    IN IF compare_value.t = "none" THEN RuleValid
       ELSE IF ~num_value.ok \/ ~num_compare.ok THEN RuleError("Invalid number format")
       ELSE IF num_value.n <= num_compare.n
            THEN RuleError(ErrorMessage(rules, "must be greater than compare_value"))
       ELSE RuleValid

_check_number_less_than(field, value, rules) ==
    LET compare_value == Get(rules.compare_value)
        num_value == Float(value)
        num_compare == Float(compare_value)
    IN IF compare_value.t = "none" THEN RuleValid
       ELSE IF ~num_value.ok \/ ~num_compare.ok THEN RuleError("Invalid number format")
       ELSE IF num_value.n >= num_compare.n
            THEN RuleError(ErrorMessage(rules, "must be less than compare_value"))
       ELSE RuleValid

\* str.strip() == ""
IsBlank(s) == Strip(s) = <<>>

_check_not_empty(field, value, rules) ==
    IF IsEmptyValue(value) \/ (value.t = "str" /\ IsBlank(value.s))
    THEN RuleError(ErrorMessage(rules, "must not be empty"))
    ELSE RuleValid

_evaluate_compliance_rule(field, value, now) ==
    LET rules == field.configuration.compliance_rules
        check_type == Get(rules.check_type)
    IN IF ~HasRules(rules) THEN RuleValid
       ELSE IF rules.t # "dict" THEN RuleRaised
       ELSE IF ~Truthy(check_type) THEN RuleValid
       ELSE CASE check_type = PyStr(CT_date_not_expired) -> _check_date_not_expired(field, value, rules, now)
              [] check_type = PyStr(CT_date_before) -> _check_date_before(field, value, rules, now)
              [] check_type = PyStr(CT_date_after) -> _check_date_after(field, value, rules, now)
              [] check_type = PyStr(CT_checkbox_is_true) -> _check_checkbox_true(field, value, rules)
              [] check_type = PyStr(CT_checkbox_is_false) -> _check_checkbox_false(field, value, rules)
              [] check_type = PyStr(CT_value_equals) -> _check_value_equals(field, value, rules)
              [] check_type = PyStr(CT_value_not_equals) -> _check_value_not_equals(field, value, rules)
              [] check_type = PyStr(CT_number_greater_than) -> _check_number_greater_than(field, value, rules)
              [] check_type = PyStr(CT_number_less_than) -> _check_number_less_than(field, value, rules)
              [] check_type = PyStr(CT_not_empty) -> _check_not_empty(field, value, rules)
              [] OTHER -> RuleValid

----------------------------------------------------------------------------
(* Per-person aggregation: ValidationService.validate_person               *)

\* the legacy check of a date_expiry field; ok = FALSE is the None it returns
\* when the date does not parse or a threshold is no number
_check_expiry(field, value, now) ==
    LET expiry_date == fromisoformat(ReplaceZ(Str(value)))
        config == field.configuration
        warning_days == GetOr(config.warning_days, PyNum(30))
        critical_days == GetOr(config.critical_days, PyNum(7))
        days_diff == DeltaDays(expiry_date.ticks, now)
        none == [ok |-> FALSE, is_expired |-> FALSE, is_warning |-> FALSE,
                 days_until_expiry |-> PyNone, days_overdue |-> PyNone]
    IN IF ~expiry_date.ok THEN none
       ELSE IF days_diff >= 0 /\ "error" \in {Compare(days_diff, warning_days),
                                               Compare(days_diff, critical_days)}
            THEN none
       ELSE [ok |-> TRUE,
             is_expired |-> days_diff < 0,
             is_warning |-> 0 <= days_diff /\ Compare(days_diff, warning_days) # "gt",
             days_until_expiry |-> IF days_diff >= 0 THEN PyNum(days_diff) ELSE PyNone,
             days_overdue |-> IF days_diff < 0 THEN PyNum(0 - days_diff) ELSE PyNone]

Entry(field, msg, overdue, until) ==
    [field_id |-> field.id, message |-> msg, days_overdue |-> overdue,
     days_until_expiry |-> until]

\* the warning branch sets is_compliant = False
Aggregate_WarningNotCompliant(warnings, errors, now) ==
    [raised |-> FALSE,
     status |-> IF errors # <<>> THEN "expired"
                ELSE IF warnings # <<>> THEN "warning" ELSE "valid",
     is_compliant |-> errors = <<>> /\ warnings = <<>>,
     warnings |-> warnings, errors |-> errors, checked_at |-> now]

\* "Determine overall status", the write-back value and the returned dict
Aggregate(warnings, errors, now) ==
    [raised |-> FALSE,
     status |-> IF errors # <<>> THEN "expired"
                ELSE IF warnings # <<>> THEN "warning" ELSE "valid",
     is_compliant |-> errors = <<>>,
     warnings |-> warnings, errors |-> errors, checked_at |-> now]

\* an exception leaves validate_person before the status is determined
VPRaised ==
    [raised |-> TRUE, status |-> "none", is_compliant |-> FALSE,
     warnings |-> <<>>, errors |-> <<>>, checked_at |-> 0]

\* the test without its "value == ''" half
RequiredMissing_NoneOnly(field, value) == field.is_required /\ value.t \in {"none", "absent"}

\* the test "field.is_required and (value is None or value == '')"
RequiredMissing(field, value) == field.is_required /\ IsEmptyValue(value)

\* the test with the second "not" lost
SkipField_LostNot(field) == ~field.is_required /\ HasRules(field.configuration.compliance_rules)

\* the test "not field.is_required and not has_compliance_rules"
SkipField(field) == ~field.is_required /\ ~HasRules(field.configuration.compliance_rules)

NoEntry == [field_id |-> 0, message |-> "", days_overdue |-> PyNone, days_until_expiry |-> PyNone]

Outcome(kind, entry) == [kind |-> kind, entry |-> entry]

\* the body of the loop for one field, given what validate_value, the rule and
\* the legacy expiry check answer for it: "continue" (nothing recorded), an
\* entry appended to errors or to warnings, or "raised" (an exception leaves
\* the loop)
LoopBody(field, value, validation_result, rule_result, expiry_check) ==
    IF field.is_system THEN Outcome("continue", NoEntry)
    ELSE IF SkipField(field) THEN Outcome("continue", NoEntry)
    ELSE IF RequiredMissing(field, value)
         THEN Outcome("error", Entry(field, "Required field is missing", PyNone, PyNone))
    ELSE IF ~IsEmptyValue(value) /\ validation_result.raised THEN Outcome("raised", NoEntry)
    ELSE IF ~IsEmptyValue(value) /\ ~validation_result.valid
         THEN Outcome("error", Entry(field, validation_result.error, PyNone, PyNone))
    ELSE IF HasRules(field.configuration.compliance_rules) /\ ~IsEmptyValue(value)
         THEN CASE rule_result.status = "raised" -> Outcome("raised", NoEntry)
                [] rule_result.status = "error" ->
                     Outcome("error", Entry(field, rule_result.message,
                                            rule_result.days_overdue, PyNone))
                [] rule_result.status = "warning" ->
                     Outcome("warning", Entry(field, rule_result.message,
                                              PyNone, rule_result.days_until))
                [] OTHER -> Outcome("continue", NoEntry)
    ELSE IF field.field_type = "date_expiry" /\ Truthy(value) /\ expiry_check.ok
         THEN IF expiry_check.is_expired
              THEN Outcome("error", Entry(field, "has expired",
                                          expiry_check.days_overdue, PyNone))
              ELSE IF expiry_check.is_warning
              THEN Outcome("warning", Entry(field, "expires in days", PyNone,
                                            expiry_check.days_until_expiry))
              ELSE Outcome("continue", NoEntry)
    ELSE Outcome("continue", NoEntry)

\* the format failure is not recorded: the loop goes on to the rules
FieldOutcome_IgnoresFormat(field, value, now) ==
    LoopBody(field, value, [raised |-> FALSE, valid |-> TRUE, error |-> ""],
             _evaluate_compliance_rule(field, value, now), _check_expiry(field, value, now))

FieldOutcome(field, value, now) ==
    LoopBody(field, value, validate_value(field, value),
             _evaluate_compliance_rule(field, value, now), _check_expiry(field, value, now))

\* the two accumulators of the loop, and whether an exception has left it
NoneYet == [raised |-> FALSE, warnings |-> <<>>, errors |-> <<>>]

\* "break" in place of "continue" after a required field was found missing:
\* nothing is recorded after that entry
Record_Break(acc, o) ==
    IF \E i \in DOMAIN acc.errors : acc.errors[i].message = "Required field is missing"
    THEN acc
    ELSE CASE o.kind = "raised" -> [acc EXCEPT !.raised = TRUE]
           [] o.kind = "error" -> [acc EXCEPT !.errors = Append(@, o.entry)]
           [] o.kind = "warning" -> [acc EXCEPT !.warnings = Append(@, o.entry)]
           [] OTHER -> acc

\* what one pass through the loop body does to the accumulators
Record(acc, o) ==
    CASE o.kind = "raised" -> [acc EXCEPT !.raised = TRUE]
      [] o.kind = "error" -> [acc EXCEPT !.errors = Append(@, o.entry)]
      [] o.kind = "warning" -> [acc EXCEPT !.warnings = Append(@, o.entry)]
      [] OTHER -> acc

RECURSIVE vp_loop(_, _, _, _)
\* the loop "for field in all_fields"; an exception ends it
vp_loop(fields, field_data, now, acc) ==
    IF fields = <<>> \/ acc.raised THEN acc
    ELSE vp_loop(Tail(fields), field_data, now,
                 Record(acc, FieldOutcome(Head(fields), Get(field_data[Head(fields).id]), now)))

\* after the loop: nothing is returned when an exception left it
Finish(acc, now) ==
    IF acc.raised THEN VPRaised ELSE Aggregate(acc.warnings, acc.errors, now)

\* all_fields is the list FieldService.get_all returned
validate_person(all_fields, field_data, now) ==
    Finish(vp_loop(all_fields, field_data, now, NoneYet), now)

----------------------------------------------------------------------------
(* Nullable JSONB list columns: Python None or a list.                     *)

NoneList == [isNone |-> TRUE, v |-> <<>>]

SomeList(l) == [isNone |-> FALSE, v |-> l]

\* Python set(list)
ListToSet(l) == {l[i] : i \in DOMAIN l}

----------------------------------------------------------------------------
(* Capability resolution: User.get_visible_fields / get_editable_fields    *)

NumFieldIds == 2
NumRoles == 2
MaxListLen == 1

FieldIds == 1..NumFieldIds
RoleIds == 1..NumRoles

\* JSON arrays of field ids, duplicates and any order allowed
FieldLists == UNION {[1..n -> FieldIds] : n \in 0..MaxListLen}

\* The return value: None ("all fields") or a set of field ids
AllFields == [all |-> TRUE, fields |-> {}]

Only(S) == [all |-> FALSE, fields |-> S]

\* "acc = set(role.<kind>)" in place of "acc.update(role.<kind>)": the last role wins
RoleUnion_LastRole(u, rs, kind) ==
    LET granting == {x \in u.roles : rs[x][kind] # <<>>}
    IN IF granting = {} THEN {}
       ELSE ListToSet(rs[CHOOSE r \in granting : \A x \in granting : x <= r][kind])

\* the loop "for role in self.roles: if role.<kind>: acc.update(role.<kind>)"
RoleUnion(u, rs, kind) ==
    UNION {ListToSet(rs[r][kind]) : r \in {x \in u.roles : rs[x][kind] # <<>>}}

\* the override is tested before the superadmin flag
get_visible_fields_OverrideFirst(u, rs) ==
    IF ~u.visible_fields.isNone THEN Only(ListToSet(u.visible_fields.v))
    ELSE IF u.is_superadmin THEN AllFields
    ELSE LET visible == RoleUnion(u, rs, "visible_fields")
         IN IF visible # {} THEN Only(visible) ELSE AllFields

get_visible_fields(u, rs) ==
    IF u.is_superadmin THEN AllFields
    ELSE IF ~u.visible_fields.isNone THEN Only(ListToSet(u.visible_fields.v))
    ELSE LET visible == RoleUnion(u, rs, "visible_fields")
         IN IF visible # {} THEN Only(visible) ELSE AllFields

\* the role grants are consulted before the actor's own override
get_editable_fields_RolesFirst(u, rs) ==
    IF u.is_superadmin THEN AllFields
    ELSE LET editable == RoleUnion(u, rs, "editable_fields")
         IN IF editable # {} THEN Only(editable)
            ELSE IF ~u.editable_fields.isNone THEN Only(ListToSet(u.editable_fields.v))
            ELSE AllFields

get_editable_fields(u, rs) ==
    IF u.is_superadmin THEN AllFields
    ELSE IF ~u.editable_fields.isNone THEN Only(ListToSet(u.editable_fields.v))
    ELSE LET editable == RoleUnion(u, rs, "editable_fields")
         IN IF editable # {} THEN Only(editable) ELSE AllFields

NoCap == [kind |-> "none", ret |-> AllFields]

\* Role rows as create_role / update_role write them: both columns are lists
RoleRows == [visible_fields : FieldLists, editable_fields : FieldLists]

\* User rows: the seeded superadmin or a user written by create_user
UserRows ==
    [is_superadmin : BOOLEAN,
     visible_fields : {NoneList} \cup {SomeList(l) : l \in FieldLists},
     editable_fields : {NoneList} \cup {SomeList(l) : l \in FieldLists},
     roles : SUBSET RoleIds]

\* a FieldDefinition row
Field(id, name, is_system, field_type, category, field_order, is_required, configuration) ==
    [id |-> id, name |-> name, is_system |-> is_system, field_type |-> field_type,
     category |-> category, field_order |-> field_order, is_required |-> is_required,
     configuration |-> configuration]

NoOut == [op |-> "none", verdict |-> Ok(PyNone), rule |-> RuleValid]

NoResp == [op |-> "none", status |-> 0, id |-> 0]

NoPerson == [field_data |-> <<>>, compliance_status |-> "pending"]

NoResult == [VPRaised EXCEPT !.raised = FALSE]

\* the variables of the other specifications, at rest
IdleCap == actor = 0 /\ roles = <<>> /\ cap = NoCap

IdleField == fdef = 0 /\ fvalue = PyNone /\ out = NoOut

IdleReg == nextId = 0 /\ resp = NoResp /\ inflight = <<>>

IdleVP == person = NoPerson /\ result = NoResult

----------------------------------------------------------------------------
(* SpecCap: the resolver applied to every actor and role table             *)

\* The columns of one kind range over every value; those of the other kind
\* stay at their column defaults (User: None, Role: []), and so do the rows of
\* the roles the actor does not hold, which the resolver never reads.
InitCap ==
    /\ \E k \in {"visible_fields", "editable_fields"}, held \in SUBSET RoleIds :
         LET other == IF k = "visible_fields" THEN "editable_fields" ELSE "visible_fields"
         IN /\ actor \in {u \in UserRows : u[other] = NoneList /\ u.roles = held}
            /\ \E grants \in [held -> FieldLists] :
                 roles = [r \in RoleIds |->
                            [x \in {k, other} |->
                               IF x = k /\ r \in held THEN grants[r] ELSE <<>>]]
    /\ cap = NoCap
    /\ IdleField /\ IdleReg /\ IdleVP /\ utcnow = 0 /\ registry = <<>>

GetVisibleFields ==
    /\ cap' = [kind |-> "visible", ret |-> get_visible_fields(actor, roles)]
    /\ UNCHANGED <<actor, roles, fieldVars, utcnow, regVars, vpVars>>

GetEditableFields ==
    /\ cap' = [kind |-> "editable", ret |-> get_editable_fields(actor, roles)]
    /\ UNCHANGED <<actor, roles, fieldVars, utcnow, regVars, vpVars>>

NextCap == GetVisibleFields \/ GetEditableFields

SpecCap == InitCap /\ [][NextCap]_vars

----------------------------------------------------------------------------
(* SpecField: the Type Validator and the rule engine applied to one field  *)
(* definition and one raw value                                            *)

\* two-digit day number
IsoDay(d) == <<Digits[(d \div 10) + 1], Digits[(d % 10) + 1]>>

\* date.isoformat() / datetime.isoformat() of the model calendar
IsoDate(d) == IsoDay(d)

IsoDateTime(d, h) == IsoDay(d) \o <<"T", Digits[h + 1]>>

\* the last day of the calendar the date values are drawn from
MaxDay == 34

\* the day on which the evaluations run
Today == 2

Days == 0..MaxDay

Ticks == 0..(TicksPerDay - 1)

DateValues ==
    {PyStr(IsoDate(d)) : d \in Days}
    \cup {PyStr(IsoDateTime(d, h)) : d \in Days, h \in Ticks}
    \cup {PyStr(IsoDateTime(d, h) \o <<"Z">>) : d \in {Today - 1, Today}, h \in Ticks}

S_abc == <<"a", "b", "c">>

S_ABCD == <<"A", "B", "C", "D">>

S_mail == <<"a", "@", "b", ".", "d", "e">>

S_JA == <<"J", "A">>

S_x == <<"x">>

S_z == <<"z">>

\* a text one character longer than the validator's default limit
LongText == PyStr([i \in 1..(DefaultMaxLength + 1) |-> "a"])

OtherValues ==
    {LongText, PyNone, PyStr(<<>>), PyStr(<<" ">>), PyStr(S_abc), PyStr(S_ABCD), PyStr(S_mail),
     PyStr(S_JA), PyStr(S_true), PyStr(<<"0">>), PyStr(<<"5", "0">>), PyStr(S_x),
     PyNum(0), PyNum(1), PyNum(50), PyNum(100), PyNum(150), PyNum(0 - 1),
     PyBool(TRUE), PyBool(FALSE), PyList(<<>>), PyList(<<S_x>>), PyList(<<S_z>>),
     PyList(<<S_x, S_z>>), PyList(<<S_x, S_z, S_abc>>)}

FieldValues == DateValues \cup OtherValues

\* FIELD_TYPES and the two types whose validators are still in the service
FieldTypeNames ==
    {"text", "textarea", "email", "number", "date", "date_expiry", "checkbox",
     "dropdown", "photo", "document", "qr_code", "barcode"}

DateNotExpired(w) ==
    [EmptyConfig EXCEPT !.compliance_rules =
        [EmptyRules EXCEPT !.check_type = PyStr(CT_date_not_expired), !.warning_days = w]]

XY == PyList(<<S_x, <<"y">>>>)

\* a configuration whose compliance_rules carry these keys
Rule(check_type, compare_to, compare_value, warning_days) ==
    [EmptyConfig EXCEPT !.compliance_rules =
        [EmptyRules EXCEPT !.check_type = check_type, !.compare_to = compare_to,
                           !.compare_value = compare_value, !.warning_days = warning_days]]

\* rules an administrator stores: complete ones, and ones with check_type or
\* compare_value missing or unusable, or warning_days no number
RuleConfigs ==
    {Rule(PyStr(ct), Absent, Absent, Absent) :
       ct \in {CT_date_before, CT_date_after, CT_checkbox_is_true, CT_not_empty, S_abc}}
    \cup {Rule(PyStr(ct), PyStr(S_x), cv, Absent) :
            ct \in {CT_date_before, CT_date_after},
            cv \in {Absent, PyStr(S_abc), PyStr(IsoDate(Today)), PyStr(IsoDateTime(Today + 1, 1))}}
    \cup {Rule(PyStr(ct), Absent, cv, Absent) :
            ct \in {CT_number_greater_than, CT_number_less_than},
            cv \in {Absent, PyStr(S_abc), PyNum(50)}}
    \cup {Rule(PyStr(CT_value_equals), Absent, cv, Absent) : cv \in {Absent, PyStr(S_x)}}
    \cup {Rule(Absent, Absent, Absent, PyNum(1)),
          Rule(PyStr(CT_date_not_expired), Absent, Absent, PyStr(S_abc))}

\* (field_type, configuration) as an administrator stores them
TypeConfigs ==
    {<<t, EmptyConfig>> : t \in FieldTypeNames}
    \cup {<<"text", [EmptyConfig EXCEPT !.max_length = PyNum(3)]>>,
          <<"text", [EmptyConfig EXCEPT !.regex = PyStr(UpperAlnumRe)]>>,
          <<"text", [EmptyConfig EXCEPT !.regex = PyStr(BrokenRe)]>>,
          <<"text", [EmptyConfig EXCEPT !.max_length = PyStr(S_abc)]>>,
          <<"number", [EmptyConfig EXCEPT !.min = PyNum(0), !.max = PyNum(100)]>>,
          <<"number", [EmptyConfig EXCEPT !.min = PyStr(S_abc)]>>,
          <<"number", [EmptyConfig EXCEPT !.min = PyNum(0)]>>,
          <<"number", [EmptyConfig EXCEPT !.max = PyNum(100)]>>,
          <<"date_expiry", [EmptyConfig EXCEPT !.warning_days = PyNum(1)]>>}
    \cup {<<"dropdown", [EmptyConfig EXCEPT !.options = XY, !.multi_select = PyBool(m),
                                             !.allow_other = PyBool(a)]>> :
            m \in BOOLEAN, a \in BOOLEAN}
    \cup {<<"date", DateNotExpired(w)>> : w \in {Absent, PyNum(0), PyNum(1), PyNum(2)}}
    \cup {<<"text", c>> : c \in RuleConfigs}
    \cup {<<"checkbox", Rule(PyStr(ct), Absent, Absent, Absent)>> :
            ct \in {CT_checkbox_is_true, CT_checkbox_is_false}}

FieldDefs ==
    {Field(1, "f", FALSE, tc[1], "", 0, r, tc[2]) : tc \in TypeConfigs, r \in BOOLEAN}

InitField ==
    /\ fdef \in FieldDefs
    /\ fvalue \in FieldValues
    /\ utcnow \in {Today * TicksPerDay + h : h \in Ticks}
    /\ out = NoOut
    /\ IdleCap /\ IdleReg /\ IdleVP /\ registry = <<>>

ValidateValue ==
    /\ out' = [op |-> "validate_value", verdict |-> validate_value(fdef, fvalue),
               rule |-> RuleValid]
    /\ UNCHANGED <<capVars, fdef, fvalue, utcnow, regVars, vpVars>>

EvaluateComplianceRule ==
    /\ out' = [op |-> "rule", verdict |-> Ok(PyNone),
               rule |-> _evaluate_compliance_rule(fdef, fvalue, utcnow)]
    /\ UNCHANGED <<capVars, fdef, fvalue, utcnow, regVars, vpVars>>

NextField == ValidateValue \/ EvaluateComplianceRule

SpecField == InitField /\ [][NextField]_vars

----------------------------------------------------------------------------
(* The registry's stable order: FieldService.get_all                       *)

\* the categories in the order the database collates them; a NULL category
\* sorts last
Categories == <<"Identifikation", "Stammdaten", "null">>

CategoryRank(c) == CHOOSE i \in DOMAIN Categories : Categories[i] = c

\* ORDER BY category, field_order
OrderedBefore(a, b) ==
    \/ CategoryRank(a.category) < CategoryRank(b.category)
    \/ a.category = b.category /\ a.field_order <= b.field_order

\* every listing of the rows of reg
AllOrders(reg) ==
    LET n == Cardinality(DOMAIN reg)
    IN {[i \in 1..n |-> reg[p[i]]] :
          p \in {q \in [1..n -> DOMAIN reg] : \A i, j \in 1..n : q[i] = q[j] => i = j}}

\* the lists get_all can return: rows with equal sort keys come in any order
get_all(reg) ==
    {l \in AllOrders(reg) : \A i, j \in DOMAIN l : i < j => OrderedBefore(l[i], l[j])}

----------------------------------------------------------------------------
(* SpecVP: validate_person applied to a registry and a person              *)

NumCustomFields == 2

\* the seeded system field last_name: required, and kept in the person's own
\* columns, never in field_data
LastName ==
    Field(1, "last_name", TRUE, "text", "Stammdaten", 2, TRUE,
          [EmptyConfig EXCEPT !.max_length = PyNum(255)])

CustomIds == 2..(1 + NumCustomFields)

TextMax2 == [EmptyConfig EXCEPT !.max_length = PyNum(2)]

TextBrokenRe == [EmptyConfig EXCEPT !.regex = PyStr(BrokenRe)]

LegacyExpiry == [EmptyConfig EXCEPT !.warning_days = PyNum(1)]

Yesterday == PyStr(IsoDate(Today - 1))

Tomorrow == PyStr(IsoDate(Today + 1))

NextWeek == PyStr(IsoDate(Today + 7))

\* rules on a text field, whose validator lets any string through to the rule
DateBeforeToday == Rule(PyStr(CT_date_before), Absent, Absent, Absent)

Above50 == Rule(PyStr(CT_number_greater_than), Absent, PyNum(50), Absent)

Case(t, c, r, vs) == {[field_type |-> t, configuration |-> c, is_required |-> r, value |-> v] : v \in vs}

\* a custom field definition together with the person's value for it: the
\* pairs that take the loop body of validate_person down each of its paths
VPCases ==
    Case("text", TextMax2, TRUE, {Absent, PyStr(<<>>), PyStr(S_abc), Yesterday})
    \cup Case("text", TextMax2, FALSE, {Absent, PyStr(S_abc)})
    \cup Case("text", TextBrokenRe, FALSE, {PyStr(S_abc)})
    \cup Case("text", TextBrokenRe, TRUE, {PyStr(<<>>), PyStr(S_abc)})
    \cup Case("date", DateNotExpired(PyNum(1)), TRUE,
              {PyStr(<<>>), PyStr(S_abc), Yesterday, Tomorrow, NextWeek})
    \cup Case("date", DateNotExpired(PyNum(1)), FALSE, {Absent, Yesterday, Tomorrow})
    \cup Case("date_expiry", LegacyExpiry, TRUE, {Yesterday, Tomorrow, NextWeek})
    \cup Case("text", DateBeforeToday, FALSE, {PyStr(S_abc), PyNum(0)})
    \cup Case("text", Above50, FALSE, {PyStr(S_abc)})

\* custom fields as create_field writes them: no category, field_order 0
VPRegistry(c) ==
    [id \in {1} \cup CustomIds |->
       IF id = 1 THEN LastName
       ELSE Field(id, "custom", FALSE, c[id].field_type, "null", 0, c[id].is_required,
                  c[id].configuration)]

\* key 0 belongs to no field definition
VPFieldData(c) ==
    [id \in 0..(1 + NumCustomFields) |->
       IF id = 0 THEN PyStr(S_abc) ELSE IF id = 1 THEN Absent ELSE c[id].value]

InitVP ==
    /\ \E c \in [CustomIds -> VPCases] :
         /\ registry = VPRegistry(c)
         /\ person = [field_data |-> VPFieldData(c), compliance_status |-> "pending"]
    /\ utcnow \in {Today * TicksPerDay + h : h \in Ticks}
    /\ result = NoResult
    /\ IdleCap /\ IdleField /\ IdleReg

\* the status is returned and the row is left as it was
WriteBack_Skipped(p, res) == p

\* "person.compliance_status = status; self.db.commit()", reached only when
\* no exception left the loop
WriteBack(p, res) ==
    IF res.raised THEN p ELSE [p EXCEPT !.compliance_status = res.status]

\* GET /persons/{id}/compliance: the call, its write-back and its return value;
\* an exception leaves the row as it was
ValidatePerson ==
    /\ \E all_fields \in get_all(registry) :
         result' = validate_person(all_fields, person.field_data, utcnow)
    /\ person' = WriteBack(person, result')
    /\ UNCHANGED <<capVars, fieldVars, utcnow, regVars>>

NextVP == ValidatePerson

SpecVP == InitVP /\ [][NextVP]_vars

----------------------------------------------------------------------------
(* SpecReg: the Field Definition Registry behind the /fields routes        *)

Max255 == [EmptyConfig EXCEPT !.max_length = PyNum(255)]

\* the rows of SYSTEM_FIELDS
SYSTEM_FIELDS ==
    <<[name |-> "first_name", field_type |-> "text", category |-> "Stammdaten",
       field_order |-> 1, is_required |-> FALSE, configuration |-> Max255],
      [name |-> "last_name", field_type |-> "text", category |-> "Stammdaten",
       field_order |-> 2, is_required |-> TRUE, configuration |-> Max255],
      [name |-> "email", field_type |-> "email", category |-> "Stammdaten",
       field_order |-> 3, is_required |-> FALSE, configuration |-> EmptyConfig],
      [name |-> "phone", field_type |-> "text", category |-> "Stammdaten",
       field_order |-> 4, is_required |-> FALSE, configuration |-> EmptyConfig],
      [name |-> "personnel_number", field_type |-> "text", category |-> "Identifikation",
       field_order |-> 10, is_required |-> FALSE, configuration |-> EmptyConfig]>>

\* how many rows of SYSTEM_FIELDS the seed of the model plants
NumSeeded == 1

\* how many further rows the model lets the registry allocate
MaxCreated == 1

MaxFieldId == NumSeeded + MaxCreated

Seeds == SubSeq(SYSTEM_FIELDS, 1, IF NumSeeded < 5 THEN NumSeeded ELSE 5)

\* the types FieldCreate admits, all of them keys of FIELD_TYPES
FIELD_TYPES ==
    {"text", "textarea", "email", "number", "date", "date_expiry", "checkbox",
     "dropdown", "photo", "document"}

\* FieldService.get_by_name: the ids of the rows with that name
get_by_name(reg, name) == {id \in DOMAIN reg : reg[id].name = name}

\* reg with one more row
Insert(reg, f) == [id \in DOMAIN reg \cup {f.id} |-> IF id = f.id THEN f ELSE reg[id]]

\* reg without a row
Remove(reg, gone) == [id \in DOMAIN reg \ {gone} |-> reg[id]]

RECURSIVE SeedLoop(_, _, _)
\* the loop of init_system_fields over the seed rows; st is <<registry, nextId>>
SeedLoop(st, seeds, i) ==
    IF i > Len(seeds) THEN st
    ELSE LET reg == st[1]
             existing == get_by_name(reg, seeds[i].name)
             row == Field(st[2], seeds[i].name, TRUE, seeds[i].field_type, seeds[i].category,
                          seeds[i].field_order, seeds[i].is_required, seeds[i].configuration)
         IN IF existing = {}
            THEN SeedLoop(<<Insert(reg, row), st[2] + 1>>, seeds, i + 1)
            ELSE SeedLoop(<<[id \in DOMAIN reg |->
                               IF id \in existing THEN [reg[id] EXCEPT !.is_system = TRUE]
                               ELSE reg[id]], st[2]>>, seeds, i + 1)

\* the state after the first boot
InitReg ==
    /\ registry = SeedLoop(<<<<>>, 1>>, Seeds, 1)[1]
    /\ nextId = SeedLoop(<<<<>>, 1>>, Seeds, 1)[2]
    /\ resp = NoResp
    /\ inflight = <<>>
    /\ IdleCap /\ IdleField /\ IdleVP /\ utcnow = 0

Response(op, status, id) == [op |-> op, status |-> status, id |-> id]

\* a restart of the application runs the seed again
init_system_fields ==
    LET st == SeedLoop(<<registry, nextId>>, Seeds, 1)
    IN /\ st[2] <= MaxFieldId + 1
       /\ registry' = st[1]
       /\ nextId' = st[2]
       /\ resp' = Response("seed", 200, 0)
       /\ UNCHANGED <<inflight, capVars, fieldVars, utcnow, vpVars>>

FieldNames == {Seeds[i].name : i \in DOMAIN Seeds} \cup {"cert"}

\* POST /fields with the defaults of FieldCreate for everything but name and type
create_field(name, field_type) ==
    /\ IF get_by_name(registry, name) # {}
       THEN /\ resp' = Response("create", 400, 0)
            /\ UNCHANGED <<registry, nextId>>
       ELSE IF field_type \notin FIELD_TYPES
       THEN /\ resp' = Response("create", 400, 0)
            /\ UNCHANGED <<registry, nextId>>
       ELSE /\ nextId <= MaxFieldId
            /\ registry' = Insert(registry, Field(nextId, name, FALSE, field_type, "null", 0,
                                                  FALSE, EmptyConfig))
            /\ nextId' = nextId + 1
            /\ resp' = Response("create", 201, nextId)
    /\ UNCHANGED <<inflight, capVars, fieldVars, utcnow, vpVars>>

\* a FieldUpdate body: a key that is None (or unset) has isNone = TRUE
Unset(v) == [isNone |-> TRUE, v |-> v]

Set(v) == [isNone |-> FALSE, v |-> v]

NoUpdate == [name |-> Unset(""), field_order |-> Unset(0), is_required |-> Unset(FALSE)]

UpdateInputs ==
    {NoUpdate}
    \cup {[NoUpdate EXCEPT !.name = Set(n)] : n \in FieldNames}
    \cup {[NoUpdate EXCEPT !.is_required = Set(b)] : b \in BOOLEAN}
    \cup {[NoUpdate EXCEPT !.field_order = Set(0)]}

\* the update writes the column default of is_system back
update_ClearsFlag(field, data) ==
    [field EXCEPT
       !.name = IF data.name.isNone THEN @ ELSE data.name.v,
       !.field_order = IF data.field_order.isNone THEN @ ELSE data.field_order.v,
       !.is_required = IF data.is_required.isNone THEN @ ELSE data.is_required.v,
       !.is_system = FALSE]

\* FieldService.update: setattr for every key whose value is not None
update(field, data) ==
    [field EXCEPT
       !.name = IF data.name.isNone THEN @ ELSE data.name.v,
       !.field_order = IF data.field_order.isNone THEN @ ELSE data.field_order.v,
       !.is_required = IF data.is_required.isNone THEN @ ELSE data.is_required.v]

\* PUT /fields/{field_id}
update_field(field_id, data) ==
    /\ IF field_id \notin DOMAIN registry
       THEN /\ resp' = Response("update", 404, field_id)
            /\ UNCHANGED registry
       ELSE IF /\ ~data.name.isNone /\ data.name.v # ""
               /\ data.name.v # registry[field_id].name
               /\ get_by_name(registry, data.name.v) # {}
       THEN /\ resp' = Response("update", 400, field_id)
            /\ UNCHANGED registry
       ELSE /\ registry' = [registry EXCEPT ![field_id] = update(@, data)]
            /\ resp' = Response("update", 200, field_id)
    /\ UNCHANGED <<nextId, inflight, capVars, fieldVars, utcnow, vpVars>>

\* DELETE /fields/{field_id} without the "System fields cannot be deleted" test
delete_field_NoGuard(field_id) ==
    /\ IF field_id \notin DOMAIN registry
       THEN /\ resp' = Response("delete", 404, field_id)
            /\ UNCHANGED registry
       ELSE /\ registry' = Remove(registry, field_id)
            /\ resp' = Response("delete", 200, field_id)
    /\ UNCHANGED <<nextId, inflight, capVars, fieldVars, utcnow, vpVars>>

\* DELETE /fields/{field_id}
delete_field(field_id) ==
    /\ IF field_id \notin DOMAIN registry
       THEN /\ resp' = Response("delete", 404, field_id)
            /\ UNCHANGED registry
       ELSE IF registry[field_id].is_system
       THEN /\ resp' = Response("delete", 400, field_id)
            /\ UNCHANGED registry
       ELSE /\ registry' = Remove(registry, field_id)
            /\ resp' = Response("delete", 200, field_id)
    /\ UNCHANGED <<nextId, inflight, capVars, fieldVars, utcnow, vpVars>>

OrderChoices == {0, 1}

\* POST /fields/reorder: field_orders gives an order to some ids, known or not
reorder_fields(field_orders) ==
    /\ registry' = [id \in DOMAIN registry |->
                      IF id \in DOMAIN field_orders
                      THEN [registry[id] EXCEPT !.field_order = field_orders[id]]
                      ELSE registry[id]]
    /\ resp' = Response("reorder", 200, 0)
    /\ UNCHANGED <<nextId, inflight, capVars, fieldVars, utcnow, vpVars>>

RequestIds == 1..MaxFieldId

NextReg ==
    \/ init_system_fields
    \/ \E n \in FieldNames, t \in {"text", "date_expiry"} : create_field(n, t)
    \/ \E id \in RequestIds, d \in UpdateInputs : update_field(id, d)
    \/ \E id \in RequestIds : delete_field(id)
    \/ \E S \in SUBSET RequestIds : \E fo \in [S -> OrderChoices] : reorder_fields(fo)

SpecReg == InitReg /\ [][NextReg]_vars

----------------------------------------------------------------------------
(* SpecRace: create and rename requests of several clients.  A request     *)
(* runs in its own database session: the route's lookups read the          *)
(* committed rows, and FieldService.create / update commit later, after    *)
(* any step of another request.                                            *)

NumClients == 2

Clients == 1..NumClients

\* the names requests ask for; a FieldUpdate may carry the empty name
RaceNames == {"first_name", "cert", ""}

\* the registry starts with one seeded row and every client may add one
RaceIds == 1..(1 + NumClients)

\* a request: op "idle" before the first one, status 0 while the lookup is done
\* and the commit is still to come; name and field_id are kept until it ends
Request(op, name, field_id, status) ==
    [op |-> op, name |-> name, field_id |-> field_id, status |-> status]

Pending(r) == r.op # "idle" /\ r.status = 0

\* the rows a pending create will still allocate
PendingCreates == {c \in Clients : inflight[c].op = "create" /\ Pending(inflight[c])}

\* no constraint on the column
UniqueViolation_NoConstraint(reg, field_id, name) == FALSE

\* name = Column(..., unique=True): the commit of a row with this name and id
\* fails when another row carries the name
UniqueViolation(reg, field_id, name) ==
    \E id \in DOMAIN reg : id # field_id /\ reg[id].name = name

InitRace ==
    /\ registry = SeedLoop(<<<<>>, 1>>, SubSeq(SYSTEM_FIELDS, 1, 1), 1)[1]
    /\ nextId = 2
    /\ resp = NoResp
    /\ inflight = [c \in Clients |-> Request("idle", "", 0, 0)]
    /\ IdleCap /\ IdleField /\ IdleVP /\ utcnow = 0

\* POST /fields up to FieldService.create: the lookup by name
create_field_lookup(c, name) ==
    /\ ~Pending(inflight[c])
    /\ nextId + Cardinality(PendingCreates) \in RaceIds
    /\ inflight' = [inflight EXCEPT ![c] =
                      IF get_by_name(registry, name) # {}
                      THEN Request("create", "", 0, 400)
                      ELSE Request("create", name, 0, 0)]
    /\ UNCHANGED <<registry, nextId, resp, capVars, fieldVars, utcnow, vpVars>>

\* FieldService.create: add and commit; IntegrityError leaves the route as a 500
create_field_commit(c) ==
    /\ inflight[c].op = "create" /\ Pending(inflight[c])
    /\ IF UniqueViolation(registry, nextId, inflight[c].name)
       THEN /\ inflight' = [inflight EXCEPT ![c] = Request("create", "", 0, 500)]
            /\ UNCHANGED <<registry, nextId>>
       ELSE /\ registry' = Insert(registry, Field(nextId, inflight[c].name, FALSE, "text",
                                                  "null", 0, FALSE, EmptyConfig))
            /\ nextId' = nextId + 1
            /\ inflight' = [inflight EXCEPT ![c] = Request("create", "", 0, 201)]
    /\ UNCHANGED <<resp, capVars, fieldVars, utcnow, vpVars>>

\* PUT /fields/{field_id} up to FieldService.update: get_by_id and, for a
\* non-empty name that differs from the row's, the lookup by name
update_field_lookup(c, field_id, name) ==
    /\ ~Pending(inflight[c])
    /\ inflight' = [inflight EXCEPT ![c] =
                      IF field_id \notin DOMAIN registry THEN Request("update", "", 0, 404)
                      ELSE IF /\ name # "" /\ name # registry[field_id].name
                              /\ get_by_name(registry, name) # {}
                      THEN Request("update", "", 0, 400)
                      ELSE Request("update", name, field_id, 0)]
    /\ UNCHANGED <<registry, nextId, resp, capVars, fieldVars, utcnow, vpVars>>

\* FieldService.update: setattr name and commit; IntegrityError leaves the
\* route as a 500
update_field_commit(c) ==
    /\ inflight[c].op = "update" /\ Pending(inflight[c])
    /\ IF UniqueViolation(registry, inflight[c].field_id, inflight[c].name)
       THEN /\ inflight' = [inflight EXCEPT ![c] = Request("update", "", 0, 500)]
            /\ UNCHANGED registry
       ELSE /\ registry' = [registry EXCEPT ![inflight[c].field_id].name = inflight[c].name]
            /\ inflight' = [inflight EXCEPT ![c] = Request("update", "", 0, 200)]
    /\ UNCHANGED <<nextId, resp, capVars, fieldVars, utcnow, vpVars>>

NextRace ==
    \/ \E c \in Clients, n \in RaceNames \ {""} : create_field_lookup(c, n)
    \/ \E c \in Clients : create_field_commit(c)
    \/ \E c \in Clients, id \in RaceIds, n \in RaceNames : update_field_lookup(c, id, n)
    \/ \E c \in Clients : update_field_commit(c)

SpecRace == InitRace /\ [][NextRace]_vars

----------------------------------------------------------------------------
(* SpecGrant: the field-level role grants, FieldService.get_visible_fields *)
(* and FieldService.get_editable_fields                                    *)

\* str(role.id): the text of a role id
RoleText(r) == IntToStr(r)

\* the ids a visible_to_roles / editable_by_roles array can hold: those of
\* the roles, and that of a role deleted since
StoredRoleIds == {RoleText(r) : r \in 1..(NumRoles + 1)}

\* JSON arrays of role ids
GrantLists == UNION {[1..n -> StoredRoleIds] : n \in 0..(MaxListLen + 1)}

\* the rows of the model's registry: first_name (Stammdaten) and
\* personnel_number (Identifikation), as init_system_fields plants them
GrantSeeds == <<SYSTEM_FIELDS[1], SYSTEM_FIELDS[Len(SYSTEM_FIELDS)]>>

\* a FieldDefinition row with its two role columns
WithGrants(row, visible_to_roles, editable_by_roles) ==
    row @@ [visible_to_roles |-> visible_to_roles, editable_by_roles |-> editable_by_roles]

\* {str(role.id) for role in user.roles}
user_role_ids(user) == {RoleText(r) : r \in user.roles}

\* any(str(role_id) in user_role_ids for role_id in l); the elements of a JSON
\* array are strings already
any_role(l, ids) == \E i \in DOMAIN l : l[i] \in ids

\* "all" in place of "any"
FieldService_get_visible_fields_All(all_fields, user) ==
    IF user.is_superadmin THEN all_fields
    ELSE SelectSeq(all_fields,
                   LAMBDA field : \/ field.visible_to_roles = <<>>
                                  \/ \A i \in DOMAIN field.visible_to_roles :
                                        field.visible_to_roles[i] \in user_role_ids(user))

\* FieldService.get_visible_fields, all_fields being what get_all returned
FieldService_get_visible_fields(all_fields, user) ==
    IF user.is_superadmin THEN all_fields
    ELSE SelectSeq(all_fields,
                   LAMBDA field : \/ field.visible_to_roles = <<>>
                                  \/ any_role(field.visible_to_roles, user_role_ids(user)))

\* FieldService.get_editable_fields
FieldService_get_editable_fields(all_fields, user) ==
    IF user.is_superadmin THEN all_fields
    ELSE SelectSeq(all_fields,
                   LAMBDA field : \/ field.editable_by_roles = <<>>
                                  \/ any_role(field.editable_by_roles, user_role_ids(user)))

\* users without overrides of their own: the superadmin, and users holding
\* any set of roles
GrantUsers ==
    {u \in UserRows : /\ u.visible_fields = NoneList /\ u.editable_fields = NoneList
                      /\ u.is_superadmin => u.roles = {}}

InitGrant ==
    /\ \E k \in {"visible_to_roles", "editable_by_roles"} :
         \E g \in [DOMAIN GrantSeeds -> GrantLists] :
            LET seeded == SeedLoop(<<<<>>, 1>>, GrantSeeds, 1)[1]
            IN registry = [id \in DOMAIN seeded |->
                             WithGrants(seeded[id],
                                        IF k = "visible_to_roles" THEN g[id] ELSE <<>>,
                                        IF k = "editable_by_roles" THEN g[id] ELSE <<>>)]
    /\ actor \in GrantUsers
    /\ cap = NoCap /\ roles = <<>>
    /\ IdleField /\ IdleReg /\ IdleVP /\ utcnow = 0

\* GET /fields: the list handed to the response
ListVisibleFields ==
    /\ \E all_fields \in get_all(registry) :
         cap' = [kind |-> "visible", ret |-> FieldService_get_visible_fields(all_fields, actor)]
    /\ UNCHANGED <<actor, roles, fieldVars, utcnow, regVars, vpVars>>

ListEditableFields ==
    /\ \E all_fields \in get_all(registry) :
         cap' = [kind |-> "editable", ret |-> FieldService_get_editable_fields(all_fields, actor)]
    /\ UNCHANGED <<actor, roles, fieldVars, utcnow, regVars, vpVars>>

NextGrant == ListVisibleFields \/ ListEditableFields

SpecGrant == InitGrant /\ [][NextGrant]_vars

----------------------------------------------------------------------------
(* SpecDep: the Dependency Evaluator, FieldService.evaluate_dependencies   *)

OP_equals == <<"e", "q", "u", "a", "l", "s">>

OP_not_equals == <<"n", "o", "t", "_", "e", "q", "u", "a", "l", "s">>

OP_contains == <<"c", "o", "n", "t", "a", "i", "n", "s">>

OP_greater_than == <<"g", "r", "e", "a", "t", "e", "r", "_", "t", "h", "a", "n">>

OP_less_than == <<"l", "e", "s", "s", "_", "t", "h", "a", "n">>

OP_is_empty == <<"i", "s", "_", "e", "m", "p", "t", "y">>

OP_is_not_empty == <<"i", "s", "_", "n", "o", "t", "_", "e", "m", "p", "t", "y">>

\* the value under the key "show_when" of a dependencies column: t = "absent"
\* (no such key), "dict" (a condition; an absent key of it is Absent), or
\* "str" (some other JSON value)
ShowWhen(t, field_id, operator, value) ==
    [t |-> t, field_id |-> field_id, operator |-> operator, value |-> value]

NoShowWhen == ShowWhen("absent", 0, Absent, Absent)

\* "if show_when:"
ShowWhenTruthy(sw) ==
    \/ sw.t = "str"
    \/ sw.t = "dict" /\ (sw.field_id # 0 \/ sw.operator # Absent \/ sw.value # Absent)

\* FieldService._evaluate_condition: "true", "false", or "raised"
_evaluate_condition(actual, operator, expected) ==
    CASE operator = PyStr(OP_equals) -> IF PyEq(actual, expected) THEN "true" ELSE "false"
      [] operator = PyStr(OP_not_equals) -> IF PyEq(actual, expected) THEN "false" ELSE "true"
      [] operator = PyStr(OP_contains) ->
           IF ~Truthy(actual) THEN "false"
           ELSE IF expected.t # "str" THEN "raised"
           ELSE IF InOptions(expected.s, PyStr(Str(actual))) = "in" THEN "true" ELSE "false"
      [] operator = PyStr(OP_greater_than) ->
           IF Float(actual).ok /\ Float(expected).ok /\ Float(actual).n > Float(expected).n
           THEN "true" ELSE "false"
      [] operator = PyStr(OP_less_than) ->
           IF Float(actual).ok /\ Float(expected).ok /\ Float(actual).n < Float(expected).n
           THEN "true" ELSE "false"
      [] operator = PyStr(OP_is_empty) ->
           IF IsEmptyValue(actual) \/ actual = PyList(<<>>) THEN "true" ELSE "false"
      [] operator = PyStr(OP_is_not_empty) ->
           IF IsEmptyValue(actual) \/ actual = PyList(<<>>) THEN "false" ELSE "true"
      [] OTHER -> "true"

\* the loop body of evaluate_dependencies for one field
Visibility(field, field_data) ==
    LET show_when == field.dependencies
        actual_value == IF show_when.field_id \in DOMAIN field_data
                        THEN Get(field_data[show_when.field_id]) ELSE PyNone
    IN IF ~ShowWhenTruthy(show_when) THEN "true"
       ELSE IF show_when.t # "dict" THEN "raised"
       ELSE _evaluate_condition(actual_value, GetOr(show_when.operator, PyStr(OP_equals)),
                                Get(show_when.value))

\* FieldService.evaluate_dependencies: the map, unless an exception left the loop
evaluate_dependencies(reg, field_data) ==
    LET visibility == [id \in DOMAIN reg |-> Visibility(reg[id], field_data)]
    IN [op |-> "evaluate_dependencies",
        raised |-> \E id \in DOMAIN reg : visibility[id] = "raised",
        visibility |-> [id \in DOMAIN reg |-> visibility[id] = "true"]]

Operators ==
    {Absent, PyNone, PyStr(S_abc)}
    \cup {PyStr(o) : o \in {OP_equals, OP_not_equals, OP_contains, OP_greater_than,
                             OP_less_than, OP_is_empty, OP_is_not_empty}}

ExpectedValues == {Absent, PyStr(S_x), PyStr(S_abc), PyStr(<<"5", "0">>), PyNum(50)}

ActualValues ==
    {Absent, PyNone, PyStr(<<>>), PyStr(S_x), PyStr(S_abc), PyStr(<<"5", "0">>), PyNum(50),
     PyNum(100), PyNum(0), PyList(<<>>), PyList(<<S_x>>)}

\* what the dependencies column of a field holds under "show_when"
ShowWhens ==
    {NoShowWhen, ShowWhen("dict", 0, Absent, Absent), ShowWhen("str", 0, Absent, Absent)}
    \cup {ShowWhen("dict", target, o, v) :
            target \in DOMAIN GrantSeeds, o \in Operators, v \in ExpectedValues}

\* two rows; the second may depend on the first or on itself, and the person
\* has a value for the first only
InitDep ==
    /\ \E sw \in ShowWhens :
         LET seeded == SeedLoop(<<<<>>, 1>>, GrantSeeds, 1)[1]
             last == Len(GrantSeeds)
         IN registry = [id \in DOMAIN seeded |->
                          seeded[id] @@ [dependencies |-> IF id = last THEN sw ELSE NoShowWhen]]
    /\ \E v \in ActualValues :
         person = [field_data |-> [id \in DOMAIN GrantSeeds |-> IF id = 1 THEN v ELSE Absent],
                   compliance_status |-> "pending"]
    /\ out = NoOut /\ fdef = 0 /\ fvalue = PyNone
    /\ result = NoResult
    /\ IdleCap /\ IdleReg /\ utcnow = 0

EvaluateDependencies ==
    /\ out' = evaluate_dependencies(registry, person.field_data)
    /\ UNCHANGED <<capVars, fdef, fvalue, utcnow, regVars, vpVars>>

NextDep == EvaluateDependencies

SpecDep == InitDep /\ [][NextDep]_vars

----------------------------------------------------------------------------
(* SpecSnap: one validate_person call at a time, taken field by field,     *)
(* while other requests create, update and delete field definitions.  In  *)
(* this specification person maps each person to its row, inflight is the *)
(* frame of the call in progress, and result keeps, next to what the call *)
(* returned, the person it was for and the rows it had loaded.             *)

Persons == {"A", "B"}

\* how many custom field definitions the other requests may have in the table
MaxSnapFields == 1

\* the seeded row of the model's table
SnapSeeds == SubSeq(SYSTEM_FIELDS, 1, 1)

\* the ids of the custom field definitions
SnapIds == (Len(SnapSeeds) + 1)..(Len(SnapSeeds) + MaxSnapFields)

NoCall == [person |-> "", fields |-> <<>>, all_fields |-> <<>>, acc |-> NoneYet]

\* A has no value for any field, B has one for every field
PersonRows ==
    [p \in Persons |->
       [field_data |-> [id \in {0} \cup DOMAIN SnapSeeds \cup SnapIds |->
                          IF p = "A" THEN Absent ELSE PyStr(S_abc)],
        compliance_status |-> "pending"]]

InitSnap ==
    /\ registry = SeedLoop(<<<<>>, 1>>, SnapSeeds, 1)[1]
    /\ nextId = 0 /\ resp = NoResp
    /\ inflight = NoCall
    /\ person = PersonRows
    /\ result = NoResult
    /\ utcnow = Today * TicksPerDay
    /\ IdleCap /\ IdleField

\* FieldService.create with the defaults of FieldCreate but for the name,
\* the order and is_required
FieldService_create(id, is_required) ==
    /\ id \notin DOMAIN registry
    /\ registry' = Insert(registry, Field(id, "cert" \o ToString(id), FALSE, "text", "null", id,
                                          is_required, EmptyConfig))
    /\ UNCHANGED <<nextId, resp, inflight, capVars, fieldVars, utcnow, vpVars>>

\* FieldService.update
FieldService_update(id, data) ==
    /\ id \in DOMAIN registry
    /\ registry' = [registry EXCEPT ![id] = update(@, data)]
    /\ UNCHANGED <<nextId, resp, inflight, capVars, fieldVars, utcnow, vpVars>>

\* FieldService.delete
FieldService_delete(id) ==
    /\ id \in DOMAIN registry
    /\ registry' = Remove(registry, id)
    /\ UNCHANGED <<nextId, resp, inflight, capVars, fieldVars, utcnow, vpVars>>

\* the row the loop works on is read again from the table
Loaded_Refreshed(field) ==
    IF field.id \in DOMAIN registry THEN registry[field.id] ELSE field

\* a FieldDefinition object of the list get_all returned: its attributes are
\* those loaded by that query, whatever has been committed since
Loaded(field) == field

\* "all_fields = self.field_service.get_all()"; the call has returned nothing yet
vp_begin(p) ==
    /\ inflight = NoCall
    /\ \E all_fields \in get_all(registry) :
         inflight' = [person |-> p, fields |-> all_fields, all_fields |-> all_fields,
                      acc |-> NoneYet]
    /\ result' = NoResult
    /\ UNCHANGED <<registry, nextId, resp, capVars, fieldVars, utcnow, person>>

\* one pass through the loop body
vp_field ==
    /\ inflight # NoCall /\ inflight.fields # <<>> /\ ~inflight.acc.raised
    /\ LET field == Loaded(Head(inflight.fields))
           value == Get(person[inflight.person].field_data[field.id])
       IN inflight' = [inflight EXCEPT !.fields = Tail(@),
                                       !.acc = Record(@, FieldOutcome(field, value, utcnow))]
    /\ UNCHANGED <<registry, nextId, resp, capVars, fieldVars, utcnow, vpVars>>

\* the status, its write-back and the commit; an exception leaves the row as
\* it was.  stale: the table no longer holds the rows the call had loaded
vp_finish ==
    /\ inflight # NoCall /\ (inflight.fields = <<>> \/ inflight.acc.raised)
    /\ result' = Finish(inflight.acc, utcnow)
                    @@ [person |-> inflight.person, all_fields |-> inflight.all_fields,
                        stale |-> inflight.all_fields \notin get_all(registry)]
    /\ person' = IF inflight.acc.raised THEN person
                 ELSE [person EXCEPT ![inflight.person].compliance_status =
                                        Finish(inflight.acc, utcnow).status]
    /\ inflight' = NoCall
    /\ UNCHANGED <<registry, nextId, resp, capVars, fieldVars, utcnow>>

NextSnap ==
    \/ \E p \in Persons : vp_begin(p)
    \/ vp_field
    \/ vp_finish
    \/ \E id \in SnapIds, b \in BOOLEAN : FieldService_create(id, b)
    \/ \E id \in SnapIds, b \in BOOLEAN :
         FieldService_update(id, [NoUpdate EXCEPT !.is_required = Set(b)])
    \/ \E id \in SnapIds : FieldService_delete(id)

SpecSnap == InitSnap /\ [][NextSnap]_vars

----------------------------------------------------------------------------
(* Properties of the capability resolver (SpecCap)                         *)

\* the set of the ids that occur in a JSON array
Members(l) == {f \in FieldIds : \E i \in DOMAIN l : l[i] = f}

\* what the roles assigned to the actor grant for a kind
Granted(kind) == {f \in FieldIds : \E r \in actor.roles : f \in Members(roles[r][kind])}

\* C1: a non-superadmin actor with a non-null override list (the empty list
\* included) resolves to exactly the set of that list, whatever the roles grant.
C1_OverrideWins ==
    /\ (cap.kind = "visible" /\ ~actor.is_superadmin /\ ~actor.visible_fields.isNone)
         => (~cap.ret.all /\ cap.ret.fields = Members(actor.visible_fields.v))
    /\ (cap.kind = "editable" /\ ~actor.is_superadmin /\ ~actor.editable_fields.isNone)
         => (~cap.ret.all /\ cap.ret.fields = Members(actor.editable_fields.v))

\* editable_fields = [] with roles granting {1, 2} resolved to the empty set
C1_Witness ==
    /\ cap.kind = "editable" /\ ~actor.is_superadmin
    /\ actor.editable_fields = SomeList(<<>>)
    /\ Granted("editable_fields") = {1, 2}
    /\ cap.ret = Only({})

\* C2: a superadmin resolves to "all fields" for both kinds, whatever its own
\* override lists and its roles' grant lists are.
C2_SuperadminAll ==
    (cap.kind # "none" /\ actor.is_superadmin) => (cap.ret.all /\ cap.ret.fields = {})

\* a superadmin with an own override and granting roles was resolved
C2_Witness ==
    /\ cap.kind = "visible" /\ actor.is_superadmin
    /\ actor.visible_fields = SomeList(<<1>>)
    /\ Granted("visible_fields") = {2}
    /\ cap.ret.all

\* C3: with a null override a non-superadmin actor resolves to the union of
\* its roles' grant lists, and to "all fields" exactly when that union is empty.
C3_RoleUnion ==
    /\ (cap.kind = "visible" /\ ~actor.is_superadmin /\ actor.visible_fields.isNone)
         => /\ cap.ret.all <=> Granted("visible_fields") = {}
            /\ ~cap.ret.all => cap.ret.fields = Granted("visible_fields")
    /\ (cap.kind = "editable" /\ ~actor.is_superadmin /\ actor.editable_fields.isNone)
         => /\ cap.ret.all <=> Granted("editable_fields") = {}
            /\ ~cap.ret.all => cap.ret.fields = Granted("editable_fields")

\* two roles granting {1} and {2} resolved to {1, 2}
C3_Witness ==
    /\ cap.kind = "visible" /\ ~actor.is_superadmin /\ actor.visible_fields.isNone
    /\ actor.roles = {1, 2}
    /\ roles[1].visible_fields = <<1>> /\ roles[2].visible_fields = <<2>>
    /\ cap.ret = Only({1, 2})

----------------------------------------------------------------------------
(* Properties of the Type Validator and of the rule engine (SpecField)     *)

\* C6: on an absent or empty value validate_value is valid iff the field is
\* not required, reports "is required" otherwise, and hands back no value: no
\* type-specific validator ran.
C6_EmptyValue ==
    (out.op = "validate_value" /\ fvalue \in {PyNone, PyStr(<<>>)})
      => /\ ~out.verdict.raised
         /\ out.verdict.valid <=> ~fdef.is_required
         /\ fdef.is_required => out.verdict.error = "Field is required"
         /\ ~fdef.is_required => out.verdict.error = ""
         /\ out.verdict.value = PyNone

\* the empty string was validated for a required email field
C6_Witness ==
    /\ out.op = "validate_value" /\ fvalue = PyStr(<<>>)
    /\ fdef.is_required /\ fdef.field_type = "email"
    /\ ~out.verdict.valid /\ out.verdict.error = "Field is required"

\* the day of a date value of the calendar, if it is one
DayOf(v) ==
    {d \in Days : \/ v = PyStr(IsoDate(d))
                  \/ \E h \in Ticks : v \in {PyStr(IsoDateTime(d, h)),
                                             PyStr(IsoDateTime(d, h) \o <<"Z">>)}}

IsDateNotExpired(f) ==
    /\ f.configuration.compliance_rules.t = "dict"
    /\ f.configuration.compliance_rules.check_type = PyStr(CT_date_not_expired)

\* C7: with d = date - today in whole days and w = warning_days (30 when not
\* configured), date_not_expired returns error with days_overdue = -d when
\* d < 0, warning with days_until = d when 0 <= d <= w, and ok when d > w;
\* never both day counts.  (w is a number: a warning_days that is no number
\* is the subject of C15.)
C7_DateNotExpired ==
    \A day \in DayOf(fvalue) :
      (/\ out.op = "rule" /\ IsDateNotExpired(fdef)
       /\ fdef.configuration.compliance_rules.warning_days.t \in {"absent", "num"})
        => LET w == IF fdef.configuration.compliance_rules.warning_days.t = "absent"
                    THEN 30 ELSE fdef.configuration.compliance_rules.warning_days.n
               d == day - (utcnow \div TicksPerDay)
               r == out.rule
           IN /\ d < 0 => (r.status = "error" /\ r.days_overdue = PyNum(0 - d)
                           /\ r.days_until = PyNone)
              /\ (0 <= d /\ d <= w) => (r.status = "warning" /\ r.days_until = PyNum(d)
                                        /\ r.days_overdue = PyNone)
              /\ d > w => (r.status = "valid" /\ r.days_until = PyNone
                           /\ r.days_overdue = PyNone)

\* a date exactly warning_days ahead was judged a warning
C7_Witness ==
    /\ out.op = "rule" /\ IsDateNotExpired(fdef)
    /\ fdef.configuration.compliance_rules.warning_days = Absent
    /\ fvalue = PyStr(IsoDateTime(Today + 30, 1))
    /\ out.rule.status = "warning" /\ out.rule.days_until = PyNum(30)

----------------------------------------------------------------------------
(* Properties of validate_person (SpecVP)                                  *)

Returned == result # NoResult /\ ~result.raised

Range(l) == {l[i] : i \in DOMAIN l}

\* C4: the returned status is 'expired' iff errors is non-empty, 'warning' iff
\* errors is empty and warnings is not, 'valid' iff both are empty; is_compliant
\* is true iff errors is empty.
C4_Aggregation ==
    Returned =>
      /\ result.status = "expired" <=> Len(result.errors) > 0
      /\ result.status = "warning" <=> (Len(result.errors) = 0 /\ Len(result.warnings) > 0)
      /\ result.status = "valid" <=> (Len(result.errors) = 0 /\ Len(result.warnings) = 0)
      /\ result.is_compliant <=> Len(result.errors) = 0

\* a person that is compliant yet carries a warning
C4_Witness ==
    /\ Returned /\ result.status = "warning" /\ result.is_compliant
    /\ Len(result.warnings) = 1 /\ Len(result.errors) = 0

\* C5: evaluating the field definitions in any order yields the same status,
\* the same is_compliant and the same sets of error and warning entries (or
\* the exception in every order).
C5_OrderIndependent ==
    result # NoResult =>
      \A l \in AllOrders(registry) :
        LET r == validate_person(l, person.field_data, utcnow)
        IN /\ r.raised = result.raised
           /\ r.status = result.status
           /\ r.is_compliant = result.is_compliant
           /\ Range(r.errors) = Range(result.errors)
           /\ Range(r.warnings) = Range(result.warnings)

\* a result with an error and a warning from different fields, which another
\* order reports in another sequence of evaluation
C5_Witness ==
    /\ Returned /\ Len(result.errors) = 2 /\ Len(result.warnings) = 0
    /\ \E l \in AllOrders(registry) :
         validate_person(l, person.field_data, utcnow).errors # result.errors

EntriesOf(l, id) == {i \in DOMAIN l : l[i].field_id = id}

RequiredEmptyIds ==
    {id \in DOMAIN registry :
       /\ ~registry[id].is_system /\ registry[id].is_required
       /\ Get(person.field_data[id]) \in {PyNone, PyStr(<<>>)}}

\* C8: a required non-system field whose value is absent or '' gets exactly one
\* error entry, the "missing" one (no Type Validator or rule verdict), and the
\* result is 'expired' and not compliant.
C8_RequiredEmpty ==
    Returned =>
      \A id \in RequiredEmptyIds :
        /\ Cardinality(EntriesOf(result.errors, id)) = 1
        /\ \A i \in EntriesOf(result.errors, id) :
             result.errors[i] = Entry(registry[id], "Required field is missing", PyNone, PyNone)
        /\ EntriesOf(result.warnings, id) = {}
        /\ result.status = "expired" /\ ~result.is_compliant

\* a required date field with a date_not_expired rule and the value '' was
\* the only field to report
C8_Witness ==
    /\ Returned /\ Len(result.errors) = 1 /\ result.status = "expired"
    /\ \E id \in RequiredEmptyIds :
         /\ IsDateNotExpired(registry[id])
         /\ person.field_data[id] = PyStr(<<>>)
         /\ result.errors[1].field_id = id

NoRequirements ==
    \A id \in DOMAIN registry :
      registry[id].is_system
      \/ (~registry[id].is_required /\ ~HasRules(registry[id].configuration.compliance_rules))

\* C9: when no non-system field is required or carries compliance_rules the
\* call returns 'valid', compliant, with no warnings and no errors, whatever the
\* attribute map holds.
C9_NoRequirements ==
    (result # NoResult /\ NoRequirements) =>
      /\ ~result.raised
      /\ result.status = "valid" /\ result.is_compliant
      /\ result.warnings = <<>> /\ result.errors = <<>>

\* valid although one value is too long for its text field and another would
\* be matched against a regex that does not compile; key 0 is an unknown key
C9_Witness ==
    /\ Returned /\ NoRequirements /\ result.status = "valid"
    /\ \E a, b \in CustomIds :
         /\ ~validate_value(registry[a], person.field_data[a]).valid
         /\ validate_value(registry[b], person.field_data[b]).raised
         /\ person.field_data[a] # Absent
    /\ 0 \in DOMAIN person.field_data /\ 0 \notin DOMAIN registry

----------------------------------------------------------------------------
(* Properties of the registry (SpecReg)                                    *)

\* C10: a delete of a system field is answered with an error and leaves the
\* registry as it was, and no operation removes a system field: every system
\* field of the registry is still in it after the step.
C10_SystemFieldsStay ==
    [][/\ \A id \in DOMAIN registry :
            registry[id].is_system => id \in DOMAIN registry'
       /\ (/\ resp'.op = "delete" /\ resp'.id \in DOMAIN registry
           /\ registry[resp'.id].is_system /\ resp' # resp)
            => (resp'.status = 400 /\ registry' = registry)]_vars

\* a delete of a seeded field was rejected after a custom field was deleted
C10_Witness ==
    /\ resp.op = "delete" /\ resp.status = 400
    /\ resp.id \in DOMAIN registry /\ registry[resp.id].is_system
    /\ nextId > NumSeeded + 1
    /\ \A i \in DOMAIN Seeds : get_by_name(registry, Seeds[i].name) # {}

----------------------------------------------------------------------------
(* Name uniqueness under interleaved requests (SpecRace)                   *)

NamesUnique ==
    \A a, b \in DOMAIN registry : registry[a].name = registry[b].name => a = b

\* the commits that end in this step
Committing == {c \in Clients : Pending(inflight[c]) /\ ~Pending(inflight'[c])}

\* the requests that end in their lookup
Refused == {c \in Clients : ~Pending(inflight[c]) /\ inflight'[c] # inflight[c]
                             /\ ~Pending(inflight'[c])}

\* the name a request asks for is carried by a row other than its own
Taken(r) ==
    \E id \in DOMAIN registry :
       registry[id].name = r.name /\ (r.op = "create" \/ id # r.field_id)

\* C11: no two field definitions of the registry ever have the same name,
\* also when the lookups and commits of create and rename requests
\* interleave; a commit for a name that another row carries is answered with
\* an error and leaves the registry unchanged, and so does a request that
\* ends in its lookup.
C11_NameUniqueness ==
    /\ []NamesUnique
    /\ [][/\ \A c \in Committing :
               Taken(inflight[c]) => (inflight'[c].status >= 400 /\ registry' = registry)
          /\ \A c \in Refused : inflight'[c].status >= 400 /\ registry' = registry]_vars

\* a create passed its lookup, another client's create took the name, and
\* the commit of the first was refused
C11_Witness ==
    \E c, d \in Clients :
       /\ inflight[c] = Request("create", "", 0, 500)
       /\ inflight[d] = Request("create", "", 0, 201)
       /\ Cardinality(DOMAIN registry) = 2

----------------------------------------------------------------------------
(* What updates may do to a system field (SpecReg)                         *)

\* the row the first boot planted for the i-th entry of SYSTEM_FIELDS has id i;
\* no route deletes it
SeededIds == {i \in DOMAIN Seeds : i \in DOMAIN registry}

\* C12: every field definition planted by the system seed keeps the name the
\* seed gave it, whatever updates were applied.
C12_SeedNamesImmutable ==
    \A i \in SeededIds : registry[i].name = Seeds[i].name

\* C13: a system field keeps its field_type and its is_system flag through
\* every step, and a seeded row keeps the type the seed gave it; its order and
\* its is_required flag do change.
C13_TypeAndFlagFrozen ==
    /\ [](\A i \in SeededIds :
            registry[i].is_system /\ registry[i].field_type = Seeds[i].field_type)
    /\ [][\A id \in DOMAIN registry :
            registry[id].is_system =>
              /\ id \in DOMAIN registry'
              /\ registry'[id].is_system
              /\ registry'[id].field_type = registry[id].field_type]_vars

\* an update of a seeded row went through and changed its order and its
\* is_required flag
C13_Witness ==
    /\ resp.op = "update" /\ resp.status = 200 /\ resp.id \in SeededIds
    /\ registry[resp.id].is_system
    /\ registry[resp.id].field_type = Seeds[resp.id].field_type
    /\ registry[resp.id].field_order # Seeds[resp.id].field_order
    /\ registry[resp.id].is_required # Seeds[resp.id].is_required

----------------------------------------------------------------------------
(* Errors of the Type Validator and of the rule engine (SpecField, SpecVP) *)

\* C14: validate_value hands back a verdict for every field definition and
\* every raw value; no exception leaves it.
C14_VerdictNeverRaised ==
    out.op = "validate_value" => ~out.verdict.raised

CheckType(f, cts) ==
    /\ f.configuration.compliance_rules.t = "dict"
    /\ \E ct \in cts : f.configuration.compliance_rules.check_type = PyStr(ct)

KnownCheckTypes ==
    {CT_date_not_expired, CT_date_before, CT_date_after, CT_checkbox_is_true,
     CT_checkbox_is_false, CT_value_equals, CT_value_not_equals, CT_number_greater_than,
     CT_number_less_than, CT_not_empty}

\* the compliance_rules of f are malformed: check_type missing or unknown,
\* compare_value missing or not parseable, warning_days not a number
Malformed(f) ==
    LET r == f.configuration.compliance_rules
    IN /\ RulesTruthy(r)
       /\ \/ ~CheckType(f, KnownCheckTypes)
          \/ /\ CheckType(f, {CT_number_greater_than, CT_number_less_than})
             /\ ~Float(Get(r.compare_value)).ok
          \/ /\ CheckType(f, {CT_date_before, CT_date_after})
             /\ GetOr(r.compare_to, PyStr(S_today)) # PyStr(S_today)
             /\ ~fromisoformat(ReplaceZ(Str(Get(r.compare_value)))).ok
          \/ /\ CheckType(f, {CT_value_equals, CT_value_not_equals})
             /\ Get(r.compare_value) = PyNone
          \/ /\ CheckType(f, {CT_date_not_expired})
             /\ r.warning_days.t \notin {"absent", "num"}

\* C15: on malformed compliance_rules _evaluate_compliance_rule returns
\* 'valid' for every value, and raises nothing.
C15_MalformedRuleIsValid ==
    (out.op = "rule" /\ Malformed(fdef)) => out.rule.status = "valid"

----------------------------------------------------------------------------
(* Values the rule engine cannot parse (SpecVP)                            *)

DateRules == {PyStr(CT_date_not_expired), PyStr(CT_date_before), PyStr(CT_date_after)}

NumberRules == {PyStr(CT_number_greater_than), PyStr(CT_number_less_than)}

RulesOf(id) == registry[id].configuration.compliance_rules

ValueOf(id) == Get(person.field_data[id])

\* the type validator of the field lets the person's value through
PassesValidator(id) ==
    LET v == validate_value(registry[id], ValueOf(id))
    IN ~v.raised /\ v.valid

\* a non-empty value under a date rule that is no ISO date
UnparseableDate(id) ==
    /\ RulesOf(id).t = "dict" /\ RulesOf(id).check_type \in DateRules
    /\ ~IsEmptyValue(ValueOf(id))
    /\ ~fromisoformat(ReplaceZ(Str(ValueOf(id)))).ok

\* a non-empty value under a number rule that float() refuses
NonNumeric(id) ==
    /\ RulesOf(id).t = "dict" /\ RulesOf(id).check_type \in NumberRules
    /\ ~IsEmptyValue(ValueOf(id))
    /\ ~Float(ValueOf(id)).ok

HasError(id, msg) ==
    \E i \in DOMAIN result.errors :
       result.errors[i].field_id = id /\ result.errors[i].message = msg

\* an exception left validate_person only where a type validator raised one
OnlyValidatorsRaise ==
    result.raised =>
      \E id \in CustomIds : validate_value(registry[id], ValueOf(id)).raised

----------------------------------------------------------------------------
(* The number and dropdown validators (SpecField)                          *)

\* a number field whose bounds, where configured, are numbers
NumberField(f) ==
    /\ f.field_type = "number"
    /\ f.configuration.min.t \in {"absent", "num"}
    /\ f.configuration.max.t \in {"absent", "num"}

BelowMin(f, n) == f.configuration.min.t = "num" /\ n < f.configuration.min.n

AboveMax(f, n) == f.configuration.max.t = "num" /\ n > f.configuration.max.n

\* C17: a numeric value v of a number field is valid iff it is neither below
\* a configured min nor above a configured max, the bounds included; below
\* min the error is "must be at least min", above max "must be at most max";
\* a bound that is not configured refuses nothing.
C17_InclusiveBounds ==
    (/\ out.op = "validate_value" /\ NumberField(fdef)
     /\ ~IsEmptyValue(fvalue) /\ Float(fvalue).ok)
      => LET n == Float(fvalue).n
             r == out.verdict
         IN /\ ~r.raised
            /\ r.valid <=> (~BelowMin(fdef, n) /\ ~AboveMax(fdef, n))
            /\ BelowMin(fdef, n) => r.error = "Value must be at least min"
            /\ (AboveMax(fdef, n) /\ ~BelowMin(fdef, n)) => r.error = "Value must be at most max"
            /\ r.valid => r.value = PyNum(n)

\* min = 0, max = 100: the value 100 was accepted
C17_Witness ==
    /\ out.op = "validate_value" /\ fdef.field_type = "number"
    /\ fdef.configuration.min = PyNum(0) /\ fdef.configuration.max = PyNum(100)
    /\ fvalue = PyNum(100)
    /\ out.verdict = Ok(PyNum(100))
\* a dropdown field with a list of options
DropdownField(f) == f.field_type = "dropdown" /\ GetOr(f.configuration.options, PyList(<<>>)).t = "list"

Options(f) == ListToSet(GetOr(f.configuration.options, PyList(<<>>)).l)

\* the scalar v is one of the options (the options are strings)
IsOption(f, v) == v.t = "str" /\ v.s \in Options(f)

\* the elements of a list value that are no option, by position
Offenders(f, l) == {i \in DOMAIN l : l[i] \notin Options(f)}

\* the least position in a non-empty set of positions
First(S) == CHOOSE i \in S : \A j \in S : i <= j

\* C18: with multi_select a scalar becomes a one-element list and the value
\* is valid iff allow_other or every element is an option; without
\* multi_select it is valid iff allow_other or the value is an option; the
\* error of a failure is "Invalid option: " followed by the first element
\* that is no option (by the value itself without multi_select).
C18_Dropdown ==
    (/\ out.op = "validate_value" /\ DropdownField(fdef) /\ ~IsEmptyValue(fvalue))
      => LET multi == Truthy(fdef.configuration.multi_select)
             allow == Truthy(fdef.configuration.allow_other)
             r == out.verdict
         IN /\ ~r.raised
            /\ (multi /\ fvalue.t = "list") =>
                  /\ r.valid <=> (allow \/ Offenders(fdef, fvalue.l) = {})
                  /\ r.value = fvalue
                  /\ ~r.valid => r.error = "Invalid option: "
                                            \o Text(fvalue.l[First(Offenders(fdef, fvalue.l))])
            /\ (multi /\ fvalue.t # "list") =>
                  /\ r.valid <=> (allow \/ IsOption(fdef, fvalue))
                  /\ r.value = PyList(<<Str(fvalue)>>)
                  /\ ~r.valid => r.error = "Invalid option: " \o Text(Str(fvalue))
            /\ ~multi =>
                  /\ r.valid <=> (allow \/ IsOption(fdef, fvalue))
                  /\ r.value = fvalue
                  /\ ~r.valid => r.error = "Invalid option: " \o Text(Str(fvalue))

\* options [x, y], multi_select: [x, z, abc] was refused for z
C18_Witness ==
    /\ out.op = "validate_value" /\ fdef.field_type = "dropdown"
    /\ fdef.configuration.options = XY
    /\ fdef.configuration.multi_select = PyBool(TRUE)
    /\ fdef.configuration.allow_other = PyBool(FALSE)
    /\ fvalue = PyList(<<S_x, S_z, S_abc>>)
    /\ out.verdict = Fail("Invalid option: z", fvalue)
----------------------------------------------------------------------------
(* The legacy date_expiry path against the date_not_expired rule (SpecVP)  *)

\* a required date_expiry field without compliance_rules whose value is a date
LegacyExpiryField(id) ==
    /\ registry[id].field_type = "date_expiry"
    /\ ~HasRules(RulesOf(id))
    /\ registry[id].is_required
    /\ Truthy(ValueOf(id))
    /\ fromisoformat(ReplaceZ(Str(ValueOf(id)))).ok

\* what the date_not_expired rule with the field's warning_days answers for
\* the field's value at the time validate_person ran
AsRule(id) ==
    _check_date_not_expired(registry[id], ValueOf(id),
        [EmptyRules EXCEPT !.check_type = PyStr(CT_date_not_expired),
                           !.warning_days = registry[id].configuration.warning_days],
        result.checked_at)

ErrorsOf(id) == {result.errors[i] : i \in EntriesOf(result.errors, id)}

WarningsOf(id) == {result.warnings[i] : i \in EntriesOf(result.warnings, id)}

\* C19: whatever the time of day, a legacy date_expiry field is recorded by
\* validate_person as the date_not_expired rule with the same warning_days
\* would have it: an error with the same days_overdue, a warning with the
\* same days_until_expiry, or nothing.
C19_LegacyAsRule ==
    Returned =>
      \A id \in CustomIds :
         LegacyExpiryField(id) =>
           LET r == AsRule(id)
           IN /\ r.status = "error" <=> ErrorsOf(id) # {}
              /\ r.status = "warning" <=> WarningsOf(id) # {}
              /\ \A e \in ErrorsOf(id) : e.days_overdue = r.days_overdue
              /\ \A w \in WarningsOf(id) : w.days_until_expiry = r.days_until
----------------------------------------------------------------------------
(* Properties of the field-level role grants (SpecGrant)                   *)

\* the role column a getter reads
GrantColumn(field) ==
    IF cap.kind = "visible" THEN field.visible_to_roles ELSE field.editable_by_roles

\* the list is empty or holds the id of a role assigned to the actor
GrantedTo(field) ==
    \/ GrantColumn(field) = <<>>
    \/ \E r \in actor.roles : \E i \in DOMAIN GrantColumn(field) :
          GrantColumn(field)[i] = RoleText(r)

\* C20: for a user who is no superadmin the getter returns a field iff its
\* role list is empty or holds the id of one of the user's roles; a
\* superadmin gets every field; each field is returned once, in the order
\* (category, field_order) of the registry.
C20_FieldGrants ==
    cap.kind \in {"visible", "editable"} =>
      /\ \A id \in DOMAIN registry :
           (registry[id] \in Range(cap.ret)) <=> (actor.is_superadmin \/ GrantedTo(registry[id]))
      /\ Range(cap.ret) \subseteq Range(registry)
      /\ \A i, j \in DOMAIN cap.ret :
           i < j => (cap.ret[i] # cap.ret[j] /\ OrderedBefore(cap.ret[i], cap.ret[j]))

\* a user holding role 2 was shown the field granted to roles 1 and 2, and
\* not the one granted to role 1 only
C20_Witness ==
    /\ cap.kind = "visible" /\ ~actor.is_superadmin /\ actor.roles = {2}
    /\ \E a, b \in DOMAIN registry :
         /\ registry[a].visible_to_roles = <<RoleText(1), RoleText(2)>>
         /\ registry[b].visible_to_roles = <<RoleText(1)>>
         /\ cap.ret = <<registry[a]>>
----------------------------------------------------------------------------
(* Which fields validate_person hands to the rule engine (SpecVP)          *)

\* a custom field that is not required, carries a date_not_expired or a
\* not_empty rule, and has no value (None, or '') in the person's field_data
OptionalRuleFieldWithoutValue(id) ==
    /\ ~registry[id].is_system /\ ~registry[id].is_required
    /\ RulesOf(id).t = "dict"
    /\ RulesOf(id).check_type \in {PyStr(CT_date_not_expired), PyStr(CT_not_empty)}
    /\ IsEmptyValue(ValueOf(id))

\* C21: the rule of a rule-bearing field runs also when the field is not
\* required and its value is absent or empty, so that a date_not_expired or
\* not_empty rule records an error for it.
C21_RuleRunsOnEmptyValue ==
    Returned =>
      \A id \in CustomIds : OptionalRuleFieldWithoutValue(id) => ErrorsOf(id) # {}
----------------------------------------------------------------------------
(* The checkbox rules against the checkbox validator (SpecField)           *)

\* the rule of the field is check_type
HasCheckType(f, check_type) ==
    /\ f.configuration.compliance_rules.t = "dict"
    /\ f.configuration.compliance_rules.check_type = PyStr(check_type)

\* the checkbox Type Validator accepts the raw value and coerces it to b
CoercedTo(b) ==
    /\ ~IsEmptyValue(fvalue)
    /\ _validate_checkbox(fdef, fvalue) = Ok(PyBool(b))

\* C22: a raw value that the checkbox validator coerces to true passes
\* checkbox_is_true and fails checkbox_is_false; one that it coerces to
\* false fails checkbox_is_true and passes checkbox_is_false.
C22_CheckboxRulesFollowValidator ==
    out.op = "rule" =>
      /\ (HasCheckType(fdef, CT_checkbox_is_true) /\ CoercedTo(TRUE)) => out.rule.status = "valid"
      /\ (HasCheckType(fdef, CT_checkbox_is_true) /\ CoercedTo(FALSE)) => out.rule.status = "error"
      /\ (HasCheckType(fdef, CT_checkbox_is_false) /\ CoercedTo(TRUE)) => out.rule.status = "error"
      /\ (HasCheckType(fdef, CT_checkbox_is_false) /\ CoercedTo(FALSE)) => out.rule.status = "valid"
----------------------------------------------------------------------------
(* The length limit of text and textarea (SpecField)                       *)

\* FIELD_TYPES["textarea"]["config_schema"]["max_length"]["default"]
TextareaDefaultMaxLength == 5000

\* the limit the specification gives a field: the configured max_length, or
\* the default of its type
LengthLimit(f) ==
    IF f.configuration.max_length.t = "num" THEN f.configuration.max_length.n
    ELSE IF f.field_type = "textarea" THEN TextareaDefaultMaxLength
    ELSE DefaultMaxLength

\* C23: a text or textarea value is valid only if it is no longer than the
\* configured max_length, or than 255 (text) / 5000 (textarea) when none is
\* configured; with no regex to satisfy, every value within the limit is
\* valid, so a textarea value of 256 characters is.
C23_LengthLimit ==
    (/\ out.op = "validate_value" /\ fdef.field_type \in {"text", "textarea"}
     /\ fdef.configuration.max_length.t \in {"absent", "num"}
     /\ fdef.configuration.regex = Absent
     /\ ~IsEmptyValue(fvalue))
      => (out.verdict.valid <=> Len(Str(fvalue)) <= LengthLimit(fdef))
----------------------------------------------------------------------------
(* Properties of the Dependency Evaluator (SpecDep)                        *)

KnownOperators ==
    {PyStr(o) : o \in {OP_equals, OP_not_equals, OP_contains, OP_greater_than, OP_less_than,
                       OP_is_empty, OP_is_not_empty}}

\* the value the person has for the field a condition refers to
Referenced(sw) ==
    IF sw.field_id \in DOMAIN person.field_data THEN Get(person.field_data[sw.field_id])
    ELSE PyNone

\* C24: evaluate_dependencies never raises and has an entry for every field:
\* true without a show_when condition, true for an unknown operator, false
\* for greater_than / less_than when an operand is no number.
C24_DependencyEvaluator ==
    out.op = "evaluate_dependencies" =>
      /\ ~out.raised
      /\ DOMAIN out.visibility = DOMAIN registry
      /\ \A id \in DOMAIN registry :
           LET sw == registry[id].dependencies
           IN /\ ~ShowWhenTruthy(sw) => out.visibility[id]
              /\ (sw.t = "dict" /\ ShowWhenTruthy(sw)
                    /\ GetOr(sw.operator, PyStr(OP_equals)) \notin KnownOperators)
                   => out.visibility[id]
              /\ (sw.t = "dict" /\ sw.operator \in {PyStr(OP_greater_than), PyStr(OP_less_than)}
                    /\ (~Float(Referenced(sw)).ok \/ ~Float(Get(sw.value)).ok))
                   => ~out.visibility[id]
----------------------------------------------------------------------------
(* The order of the reported entries (SpecVP)                              *)

\* the entries of l follow the (category, field_order) order of their fields
InRegistryOrder(l) ==
    \A i, j \in DOMAIN l :
       i < j => OrderedBefore(registry[l[i].field_id], registry[l[j].field_id])

\* C25: errors and warnings each come in the (category, field_order)
\* sequence of their fields, and a second call on the same person, the same
\* definitions and the same instant returns the same two lists.
C25_ReportedOrder ==
    Returned =>
      /\ InRegistryOrder(result.errors) /\ InRegistryOrder(result.warnings)
      /\ \A all_fields \in get_all(registry) :
           LET again == validate_person(all_fields, person.field_data, result.checked_at)
           IN again.errors = result.errors /\ again.warnings = result.warnings
----------------------------------------------------------------------------
(* Snapshot isolation of a validation (SpecSnap)                           *)

\* what a call returned, without the bookkeeping of the model
Returns(r) ==
    [raised |-> r.raised, status |-> r.status, is_compliant |-> r.is_compliant,
     warnings |-> r.warnings, errors |-> r.errors, checked_at |-> r.checked_at]

\* the call's result is that of evaluating the person against the rows
\* get_all returned when the call began
EqualsSnapshotResult ==
    result # NoResult =>
      Returns(result) = validate_person(result.all_fields,
                                        person[result.person].field_data, utcnow)

\* a step changes the row of no person but the one being validated, and of
\* that row the compliance_status only
OnlyOwnStatus ==
    \A p \in Persons :
       person'[p] # person[p] =>
         /\ p = inflight.person
         /\ person'[p].field_data = person[p].field_data

\* C26: the result of a validate_person call equals that of evaluating the
\* person against the field definitions as they were when the call began,
\* whatever is created, updated or deleted meanwhile; and validating one
\* person changes no other person's compliance_status.
C26_SnapshotIsolation == []EqualsSnapshotResult /\ [][OnlyOwnStatus]_vars

\* A was reported 'expired' for a required field that was deleted before the
\* call committed, while B, validated before, kept its 'valid'
C26_Witness ==
    /\ result # NoResult /\ result.person = "A" /\ result.status = "expired"
    /\ result.stale
    /\ \E i \in DOMAIN result.all_fields :
         /\ result.all_fields[i].is_required
         /\ result.all_fields[i].id \notin DOMAIN registry
    /\ person["A"].compliance_status = "expired"
    /\ person["B"].compliance_status = "valid"
----------------------------------------------------------------------------
(* date_before and date_after (SpecField)                                  *)

\* the instant of a value that is an ISO date of the calendar, in ticks
InstantOf(v) == fromisoformat(ReplaceZ(Str(v))).ticks

\* the comparison date of a complete rule: midnight of today when compare_to
\* is 'today' or missing, else the instant compare_value names
ComparisonDate(rules) ==
    IF GetOr(rules.compare_to, PyStr(S_today)) = PyStr(S_today)
    THEN (utcnow \div TicksPerDay) * TicksPerDay
    ELSE InstantOf(rules.compare_value)

\* the rule compares with today, or with a compare_value that is a date
CompleteDateRule(rules) ==
    \/ GetOr(rules.compare_to, PyStr(S_today)) = PyStr(S_today)
    \/ rules.compare_value \in DateValues

\* C27: date_before and date_after answer ok for an absent value; for a date
\* they compare it with today or with compare_value: date_before answers
\* error iff value >= comparison date, date_after iff value <= comparison
\* date, so the comparison date itself fails both.
C27_DateBeforeAfter ==
    (/\ out.op = "rule"
     /\ (HasCheckType(fdef, CT_date_before) \/ HasCheckType(fdef, CT_date_after))
     /\ CompleteDateRule(fdef.configuration.compliance_rules))
      => LET rules == fdef.configuration.compliance_rules
             r == out.rule
         IN /\ IsEmptyValue(fvalue) => r.status = "valid"
            /\ fvalue \in DateValues =>
                 /\ r.status \in {"valid", "error"}
                 /\ HasCheckType(fdef, CT_date_before) =>
                      (r.status = "error" <=> InstantOf(fvalue) >= ComparisonDate(rules))
                 /\ HasCheckType(fdef, CT_date_after) =>
                      (r.status = "error" <=> InstantOf(fvalue) <= ComparisonDate(rules))

\* midnight of today under date_after with compare_to 'today': an error
C27_Witness ==
    /\ out.op = "rule" /\ HasCheckType(fdef, CT_date_after)
    /\ fdef.configuration.compliance_rules.compare_to = Absent
    /\ fvalue = PyStr(IsoDate(Today))
    /\ out.rule = RuleError("must be after the specified date")
----------------------------------------------------------------------------
(* One entry per field (SpecVP)                                            *)

\* a non-empty value of a checked field that its type validator turns down
FailsValidator(id) ==
    /\ ~registry[id].is_system /\ ~SkipField(registry[id])
    /\ ~IsEmptyValue(ValueOf(id))
    /\ ~validate_value(registry[id], ValueOf(id)).raised
    /\ ~validate_value(registry[id], ValueOf(id)).valid

FormatError(id) ==
    Entry(registry[id], validate_value(registry[id], ValueOf(id)).error, PyNone, PyNone)

\* C28: in a returned result each field id appears at most once in errors
\* and warnings together; no system field and no field that is neither
\* required nor rule-bearing appears; a field whose value fails the type
\* validator has exactly one error, the validator's, and no rule verdict.
C28_OneEntryPerField ==
    Returned =>
      /\ \A i \in DOMAIN result.errors : result.errors[i].field_id \in DOMAIN registry
      /\ \A i \in DOMAIN result.warnings : result.warnings[i].field_id \in DOMAIN registry
      /\ \A id \in DOMAIN registry :
           /\ Cardinality(EntriesOf(result.errors, id))
                + Cardinality(EntriesOf(result.warnings, id)) <= 1
           /\ (registry[id].is_system \/ SkipField(registry[id])) =>
                EntriesOf(result.errors, id) = {} /\ EntriesOf(result.warnings, id) = {}
           /\ FailsValidator(id) =>
                /\ Cardinality(EntriesOf(result.errors, id)) = 1
                /\ ErrorsOf(id) = {FormatError(id)}
                /\ EntriesOf(result.warnings, id) = {}

\* a date field whose value is no date and whose rule would answer an error
\* of its own: only the validator's error is in the result
C28_Witness ==
    /\ Returned
    /\ \E id \in DOMAIN registry :
         /\ FailsValidator(id)
         /\ _evaluate_compliance_rule(registry[id], ValueOf(id), result.checked_at).status = "error"
         /\ ErrorsOf(id) = {FormatError(id)}
----------------------------------------------------------------------------
(* Write-back and frame of validate_person (SpecVP)                        *)

\* what is stored on the person's row after a call that returned
StoredIsReturned ==
    Returned =>
      /\ person.compliance_status = result.status
      /\ person.compliance_status \in {"valid", "warning", "expired"}

\* what a call leaves alone: field_data, the field definitions and, when an
\* exception ends it, the whole row
FrameOfCall ==
    /\ person'.field_data = person.field_data
    /\ registry' = registry
    /\ result'.raised => person' = person
    /\ ~result'.raised => person'.compliance_status # "pending"

\* C29: after every call that returned, the stored compliance_status is the
\* returned status, one of valid, warning, expired and never 'pending' again;
\* the call changes neither the person's field_data nor a field definition.
C29_WriteBackAndFrame == []StoredIsReturned /\ [][FrameOfCall]_vars

\* a call has moved the row from 'pending' to 'warning'
C29_Witness ==
    /\ Returned /\ result.status = "warning" /\ result.warnings # <<>>
    /\ person.compliance_status = "warning"
----------------------------------------------------------------------------
(* SpecClock: validate_person called again and again while the clock runs  *)

ClockDays == 6

\* the clock starts the day before Today and runs for ClockDays days
ClockStart == (Today - 1) * TicksPerDay

ClockEnd == ClockStart + ClockDays * TicksPerDay

DateFieldId == 2

OtherFieldId == 3

\* the field under a date_not_expired rule and the person's value for it: a
\* date today, a date and time tomorrow, a date in three days, under a rule
\* with warning_days missing, 0, 1 or no number; and text that is no date
ClockDateCases ==
    UNION {Case("date", DateNotExpired(w), r,
                {PyStr(IsoDate(Today)), PyStr(IsoDateTime(Today + 1, 1)),
                 PyStr(IsoDate(Today + 3))}) :
             w \in {Absent, PyNum(0), PyNum(1), PyStr(S_abc)}, r \in BOOLEAN}
    \cup Case("text", DateNotExpired(PyNum(1)), FALSE, {PyStr(S_abc)})

\* the other custom field: skipped, required and missing, or a legacy expiry
ClockOtherCases ==
    Case("text", TextMax2, FALSE, {Absent})
    \cup Case("text", TextMax2, TRUE, {Absent})
    \cup Case("date_expiry", LegacyExpiry, TRUE, {Tomorrow})

ClockRegistry(d, o) ==
    [id \in {1, DateFieldId, OtherFieldId} |->
       IF id = 1 THEN LastName
       ELSE IF id = DateFieldId
       THEN Field(id, "custom", FALSE, d.field_type, "null", 0, d.is_required, d.configuration)
       ELSE Field(id, "custom", FALSE, o.field_type, "null", 0, o.is_required, o.configuration)]

ClockFieldData(d, o) ==
    [id \in {1, DateFieldId, OtherFieldId} |->
       IF id = 1 THEN Absent ELSE IF id = DateFieldId THEN d.value ELSE o.value]

InitClock ==
    /\ \E d \in ClockDateCases, o \in ClockOtherCases :
         /\ registry = ClockRegistry(d, o)
         /\ person = [field_data |-> ClockFieldData(d, o), compliance_status |-> "pending"]
    /\ utcnow = ClockStart
    /\ result = NoResult
    /\ IdleCap /\ IdleField /\ IdleReg

\* datetime.utcnow() answers a later instant; nothing is stored
AdvanceClock ==
    /\ utcnow < ClockEnd
    /\ utcnow' = utcnow + 1
    /\ UNCHANGED <<capVars, fieldVars, regVars, person, result>>

NextClock == ValidatePerson \/ AdvanceClock

SpecClock == InitClock /\ [][NextClock]_vars

----------------------------------------------------------------------------
(* Time-derived progression (SpecClock)                                    *)

\* ok, then warning, then error
Rank(status) == CASE status = "valid" -> 0 [] status = "warning" -> 1 [] OTHER -> 2

\* the verdict of the date_not_expired rule on the person's value at an instant
VerdictAt(now) ==
    _check_date_not_expired(registry[DateFieldId], ValueOf(DateFieldId),
                            RulesOf(DateFieldId), now).status

\* where a returned result has the field: in errors, in warnings, nowhere
Recorded(r, id) ==
    IF EntriesOf(r.errors, id) # {} THEN "error"
    ELSE IF EntriesOf(r.warnings, id) # {} THEN "warning" ELSE "valid"

Completed(r) == r # NoResult /\ ~r.raised

\* the verdict at the later instant is not behind the one at the earlier
VerdictForward ==
    /\ Rank(VerdictAt(utcnow')) >= Rank(VerdictAt(utcnow))
    /\ (Completed(result) /\ Completed(result')) =>
         Rank(Recorded(result', DateFieldId)) >= Rank(Recorded(result, DateFieldId))

\* a result that is 'expired' with an error of the field is followed by one
ExpiredStays ==
    (Completed(result) /\ result.status = "expired"
       /\ Recorded(result, DateFieldId) = "error")
      => (Completed(result') /\ result'.status = "expired"
            /\ Recorded(result', DateFieldId) = "error")

\* C30: for a fixed date value and a fixed date_not_expired rule the verdict
\* only moves forward through ok, warning and error as the clock advances;
\* once a validation returned 'expired' because of that field, every later
\* validation on the same field_data and definitions returns 'expired'.
C30_TimeProgression ==
    [][(person'.field_data = person.field_data /\ registry' = registry)
         => (VerdictForward /\ ExpiredStays)]_vars

\* a person whose date was ok when the clock started is now 'expired' by the
\* rule's "has expired" on that field alone
C30_Witness ==
    /\ utcnow > ClockStart
    /\ VerdictAt(ClockStart) = "valid"
    /\ Completed(result) /\ result.status = "expired"
    /\ person.compliance_status = "expired"
    /\ Len(result.errors) = 1
    /\ result.errors[1].field_id = DateFieldId
    /\ result.errors[1].message = "has expired"
====
